---------------------------- MODULE Spec2Model ----------------------------
(***************************************************************************)
(* Octane core: the validation-and-signing pipeline.                       *)
(*                                                                         *)
(* signWithTokenFee and createAccountIfTokenFeePaid sequence the           *)
(* validators (validateTransaction, validateInstructions,                  *)
(* validateAccountInitializationInstructions, validateTransfer), the       *)
(* cache-based dedup and per-source lockout, and simulateRawTransaction.   *)
(* Every request is an independent task; tasks interleave at their awaits  *)
(* of the cache and of the Ledger Client.                                  *)
(***************************************************************************)
EXTENDS Integers, Sequences, FiniteSets, TLC

VARIABLES
    cache,      \* cache-manager store: key -> value (absent keys are not in the domain)
    now,        \* Date.now(), in ms
    ticks,      \* how many times the clock has advanced
    inv,        \* the invocations of the two orchestrators, one per slot
    calls,      \* how many invocations have been started
    past,       \* history: the invocations a sequential client has completed
    vin,        \* input of the validator under test (validator specifications)
    vout        \* outcome of the validator under test

vars == <<cache, now, ticks, inv, calls, past, vin, vout>>

(***************************************************************************)
(* Bounds of the model.                                                    *)
(***************************************************************************)
NumInv == 2         \* concurrent invocations (requests in flight at once)
MaxCalls == 3       \* invocations a sequential client makes one after another
MaxTicks == 1       \* advances of the clock between two readings
MaxRefs == 3        \* account references of a generated instruction list
MaxIx == 2          \* instructions of a generated instruction list

(***************************************************************************)
(* Public keys, program ids, blockhashes.                                  *)
(***************************************************************************)
NoKey == "none"                         \* an undefined public key
FeePayerKey == "FEEPAYER"               \* feePayer.publicKey, the custody key
OwnerKey == "OWNER"                     \* the token owner, second signer
NewOwnerKey == "NEWOWNER"               \* owner of the account to create
SourceKey == "SRC"                      \* the owner's token account
DestKey == "DEST"                       \* Octane's token account
OtherKey == "OTHER"                     \* any other account
MintKey == "MINT"                       \* the accepted mint
OtherMintKey == "MINTX"                 \* a mint that is not accepted
TOKEN_PROGRAM_ID == "TOKEN_PROGRAM"
ASSOCIATED_TOKEN_PROGRAM_ID == "ATOKEN_PROGRAM"
SYSTEM_PROGRAM_ID == "SYSTEM_PROGRAM"
NoBlockhash == ""                       \* recentBlockhash undefined

\* The allow-list handed to the orchestrators (config.endpoints.transfer.tokens).
AllowedTokens ==
    << [mint |-> MintKey, account |-> DestKey, decimals |-> 6, fee |-> 2] >>

sameSourceTimeout == 5000

(***************************************************************************)
(* Transactions.                                                           *)
(***************************************************************************)
Meta(pk, s, w) == [pubkey |-> pk, isSigner |-> s, isWritable |-> w]

\* A signature: who made it and whether it verifies over the message.
NoSig == [by |-> NoKey, ok |-> FALSE]               \* signature: null
SigBy(k) == [by |-> k, ok |-> TRUE]
BadSigBy(k) == [by |-> k, ok |-> FALSE]             \* bytes that do not verify
HasSig(s) == s # NoSig

Slot(pk, sig) == [publicKey |-> pk, signature |-> sig]

Data(t, a, d) == [type |-> t, amount |-> a, decimals |-> d]

Ix(p, ks, d) == [programId |-> p, keys |-> ks, data |-> d]

Tx(fp, bh, sigs, ixs) ==
    [feePayer |-> fp, recentBlockhash |-> bh, signatures |-> sigs, instructions |-> ixs]


\* Parameters the API layer passes to the orchestrators (config.json).
Config == [maxSignatures |-> 2, lamportsPerSignature |-> 5000]

RECURSIVE SeqToSet(_)
SeqToSet(s) == IF s = <<>> THEN {} ELSE {Head(s)} \cup SeqToSet(Tail(s))

(***************************************************************************)
(* web3.js: the message (signing payload), serialize and Transaction.from. *)
(* The compiled message lists every account once, with the flags of all    *)
(* its references merged; the fee payer is always a writable signer.        *)
(***************************************************************************)
AllMetas(tx) ==
    UNION { SeqToSet(tx.instructions[i].keys) : i \in DOMAIN tx.instructions }

\* feePayer of the compiled message: tx.feePayer, else the first slot's key.
CompiledFeePayer(tx) ==
    IF tx.feePayer # NoKey THEN tx.feePayer
    ELSE IF Len(tx.signatures) > 0 THEN tx.signatures[1].publicKey
    ELSE NoKey

\* The keys of the signature slots.
SlotKeys(tx) == { tx.signatures[k].publicKey : k \in DOMAIN tx.signatures }

\* Every account of the compiled message: fee payer, referenced accounts, programs.
AccountKeys(tx) ==
    {CompiledFeePayer(tx)} \cup { m.pubkey : m \in AllMetas(tx) }
        \cup { tx.instructions[i].programId : i \in DOMAIN tx.instructions }

\* compileMessage throws without a blockhash or a fee payer, and on a signature
\* slot whose key is no account of the message ("unknown signer").
CanCompile(tx) ==
    /\ tx.recentBlockhash # NoBlockhash
    /\ CompiledFeePayer(tx) # NoKey
    /\ SlotKeys(tx) \subseteq AccountKeys(tx)

IsSignerKey(tx, k) == \E m \in AllMetas(tx) : m.pubkey = k /\ m.isSigner
IsWritableKey(tx, k) == \E m \in AllMetas(tx) : m.pubkey = k /\ m.isWritable

RECURSIVE Ordered(_)
\* The keys of a set one after the other (equal-ranking keys in a fixed order).
Ordered(S) ==
    IF S = {} THEN <<>>
    ELSE LET k == CHOOSE x \in S : TRUE IN <<k>> \o Ordered(S \ {k})

\* The required signers of the compiled message, in its order: the fee payer,
\* the accounts referenced as signers (writable ones first), then the accounts
\* that only a signature slot names (writable ones first).
CompiledSigners(tx) ==
    LET others == AccountKeys(tx) \ {CompiledFeePayer(tx)}
        named == { k \in others : IsSignerKey(tx, k) }
        slotted == { k \in others \ named : k \in SlotKeys(tx) }
    IN  <<CompiledFeePayer(tx)>>
        \o Ordered({ k \in named : IsWritableKey(tx, k) })
        \o Ordered({ k \in named : ~IsWritableKey(tx, k) })
        \o Ordered({ k \in slotted : IsWritableKey(tx, k) })
        \o Ordered({ k \in slotted : ~IsWritableKey(tx, k) })

\* transaction._compile(): when the slots are not exactly the required signers,
\* in order, the slots are rebuilt, all unsigned.
Compile(tx) ==
    IF [k \in DOMAIN tx.signatures |-> tx.signatures[k].publicKey] = CompiledSigners(tx)
    THEN tx
    ELSE [tx EXCEPT !.signatures =
            [k \in DOMAIN CompiledSigners(tx) |-> Slot(CompiledSigners(tx)[k], NoSig)]]

\* transaction.serializeMessage(): the payload that is signed and hashed.
Message(tx) ==
    [feePayer |-> CompiledFeePayer(tx),
     recentBlockhash |-> tx.recentBlockhash,
     signers |-> {CompiledFeePayer(tx)} \cup {m.pubkey : m \in {x \in AllMetas(tx) : x.isSigner}}
                    \cup (SlotKeys(tx) \cap AccountKeys(tx)),
     writable |-> {CompiledFeePayer(tx)} \cup {m.pubkey : m \in {x \in AllMetas(tx) : x.isWritable}},
     instructions |->
        [i \in DOMAIN tx.instructions |->
            [programId |-> tx.instructions[i].programId,
             accounts |-> [k \in DOMAIN tx.instructions[i].keys |->
                              tx.instructions[i].keys[k].pubkey],
             data |-> tx.instructions[i].data]]]

\* base58.encode(sha256(message)): collision-free on the messages of the model.
MessageHash(tx) == [sha256 |-> Message(tx)]

\* _verifySignatures: every present signature verifies; none missing if required.
SignaturesVerify(tx, requireAll) ==
    \A k \in DOMAIN tx.signatures :
        IF HasSig(tx.signatures[k].signature)
        THEN tx.signatures[k].signature.ok
             /\ tx.signatures[k].signature.by = tx.signatures[k].publicKey
        ELSE ~requireAll

\* transaction.serialize(): the wire bytes, signatures then message.
Serialize(tx) == [signatures |-> Compile(tx).signatures, message |-> Message(tx)]

\* Transaction.from(bytes): every reference gets its account's merged flags.
TransactionFrom(raw) ==
    [feePayer |-> raw.message.feePayer,
     recentBlockhash |-> raw.message.recentBlockhash,
     signatures |-> raw.signatures,
     instructions |->
        [i \in DOMAIN raw.message.instructions |->
            [programId |-> raw.message.instructions[i].programId,
             keys |-> [k \in DOMAIN raw.message.instructions[i].accounts |->
                          Meta(raw.message.instructions[i].accounts[k],
                               raw.message.instructions[i].accounts[k] \in raw.message.signers,
                               raw.message.instructions[i].accounts[k] \in raw.message.writable)],
             data |-> raw.message.instructions[i].data]]]

\* transaction.partialSign(feePayer): compile, then fill the signer's slot.
PartialSign(tx, key) ==
    [tx EXCEPT !.signatures =
        [k \in DOMAIN Compile(tx).signatures |->
            IF Compile(tx).signatures[k].publicKey = key
            THEN Slot(key, SigBy(key))
            ELSE Compile(tx).signatures[k]]]

\* base58.encode(transaction.signature!): the text form of slot 0's signature.
Base58(sig) == [base58 |-> sig]
NoSignature == Base58(NoSig)
NoRaw == Serialize(Tx(NoKey, NoBlockhash, <<>>, <<>>))

(***************************************************************************)
(* validateTransaction: the envelope checks, then sign and serialize.      *)
(***************************************************************************)
RECURSIVE SecondaryError(_)
SecondaryError(secondary) ==
    IF secondary = <<>> THEN ""
    ELSE IF Head(secondary).publicKey = NoKey THEN "missing public key"
    ELSE IF ~HasSig(Head(secondary).signature) THEN "missing signature"
    ELSE SecondaryError(Tail(secondary))

EnvelopeError(tx, maxSignatures) ==
    IF tx.feePayer # FeePayerKey THEN "invalid fee payer"
    ELSE IF tx.recentBlockhash = NoBlockhash THEN "missing recent blockhash"
    ELSE IF Len(tx.signatures) = 0 THEN "no signatures"
    ELSE IF Len(tx.signatures) > maxSignatures THEN "too many signatures"
    ELSE IF tx.signatures[1].publicKey = NoKey THEN "TypeError"
    ELSE IF tx.signatures[1].publicKey # FeePayerKey THEN "invalid fee payer pubkey"
    ELSE IF HasSig(tx.signatures[1].signature) THEN "invalid fee payer signature"
    ELSE SecondaryError(Tail(tx.signatures))

\* A variant that returns the signature of the last slot.
validateTransaction_lastSlot(tx, maxSignatures) ==
    LET e == EnvelopeError(tx, maxSignatures)
        signed == PartialSign(tx, FeePayerKey)
    IN  IF e # "" \/ ~CanCompile(tx) \/ ~SignaturesVerify(signed, TRUE)
        THEN [err |-> "invalid", tx |-> tx, signature |-> NoSignature, rawTransaction |-> NoRaw]
        ELSE [err |-> "", tx |-> signed,
              signature |-> Base58(signed.signatures[Len(signed.signatures)].signature),
              rawTransaction |-> Serialize(signed)]

\* A variant that signs before it checks the envelope.
validateTransaction_signsFirst(tx, maxSignatures) ==
    LET e == EnvelopeError(tx, maxSignatures)
        signed == PartialSign(tx, FeePayerKey)
    IN  IF e # ""
        THEN [err |-> e, tx |-> signed, signature |-> NoSignature, rawTransaction |-> NoRaw]
        ELSE [err |-> "", tx |-> signed,
              signature |-> Base58(signed.signatures[1].signature),
              rawTransaction |-> Serialize(signed)]

\* The outcome: the error ("" for none), the transaction as it is left, and the
\* returned {signature, rawTransaction}.
validateTransaction(tx, maxSignatures) ==
    LET e == EnvelopeError(tx, maxSignatures)
    IN  IF e # ""
        THEN [err |-> e, tx |-> tx, signature |-> NoSignature, rawTransaction |-> NoRaw]
        ELSE IF ~CanCompile(tx)
        THEN [err |-> "Transaction compile error", tx |-> tx,
              signature |-> NoSignature, rawTransaction |-> NoRaw]
        ELSE CHOOSE outcome \in
                { IF ~SignaturesVerify(signed, TRUE)
                  THEN [err |-> "Signature verification failed", tx |-> signed,
                        signature |-> NoSignature, rawTransaction |-> NoRaw]
                  ELSE [err |-> "", tx |-> signed,
                        signature |-> Base58(signed.signatures[1].signature),
                        rawTransaction |-> Serialize(signed)]
                  : signed \in {PartialSign(tx, FeePayerKey)} } : TRUE

(***************************************************************************)
(* validateInstructions: the fee payer is never writable or a signer.      *)
(***************************************************************************)
\* A variant that looks at the writable flag only.
KeyViolates_writableOnly(key, feePayer) ==
    key.isWritable /\ key.pubkey = feePayer

KeyViolates(key, feePayer) ==
    (key.isWritable \/ key.isSigner) /\ key.pubkey = feePayer

\* A variant that looks at one key of each instruction only.
ScanKeys_oneKey(keys, k, feePayer) ==
    IF k > Len(keys) THEN 0
    ELSE IF (keys[k].isWritable \/ keys[k].isSigner) /\ keys[k].pubkey = feePayer THEN k
    ELSE 0

RECURSIVE ScanKeys(_, _, _)
\* The position of the first violating key at or after position k, 0 for none.
ScanKeys(keys, k, feePayer) ==
    IF k > Len(keys) THEN 0
    ELSE IF KeyViolates(keys[k], feePayer) THEN k
    ELSE ScanKeys(keys, k + 1, feePayer)

RECURSIVE ScanInstructions(_, _, _)
ScanInstructions(ixs, i, feePayer) ==
    IF i > Len(ixs) THEN [err |-> "", ix |-> 0, key |-> 0, role |-> ""]
    ELSE LET k == ScanKeys(ixs[i].keys, 1, feePayer)
         IN  IF k # 0
             THEN [err |-> "invalid account", ix |-> i, key |-> k,
                   role |-> IF ixs[i].keys[k].isWritable THEN "writable" ELSE "signer"]
             ELSE ScanInstructions(ixs, i + 1, feePayer)

validateInstructions(tx, feePayer) == ScanInstructions(tx.instructions, 1, feePayer)

(***************************************************************************)
(* validateTransfer: the fee transfer to Octane's token account.           *)
(***************************************************************************)
NoMeta == Meta(NoKey, FALSE, FALSE)
NoInstruction ==
    [type |-> "", source |-> NoMeta, destination |-> NoMeta, owner |-> NoMeta,
     mint |-> NoMeta, amount |-> 0, decimals |-> 0]

\* Ledger Client getAccount: the token account's state, or not found.
Account(o, f, a, m) == [found |-> TRUE, owner |-> o, isFrozen |-> f, amount |-> a, mint |-> m]
AccountNotFound == [found |-> FALSE, owner |-> NoKey, isFrozen |-> FALSE, amount |-> 0, mint |-> NoKey]

\* A variant that takes the first instruction for the token instruction.
FindIndex_first(ixs, i, programId) == IF Len(ixs) = 0 THEN 0 ELSE 1

RECURSIVE FindIndex(_, _, _)
\* Array.prototype.find: the index of the first instruction of the program, 0 for none.
FindIndex(ixs, i, programId) ==
    IF i > Len(ixs) THEN 0
    ELSE IF ixs[i].programId = programId THEN i
    ELSE FindIndex(ixs, i + 1, programId)

RECURSIVE FindToken(_, _, _)
\* allowedTokens.find: the index of the first entry with the mint, 0 for none.
FindToken(tokens, i, mint) ==
    IF i > Len(tokens) THEN 0
    ELSE IF tokens[i].mint = mint THEN i
    ELSE FindToken(tokens, i + 1, mint)

\* spl-token decodeInstruction: the decoded form, or the error it throws.
decodeInstruction(ix) ==
    LET t == ix.data.type
        n == Len(ix.keys)
    IN  IF t = "Transfer"
        THEN IF n < 3
             THEN [err |-> "TokenInvalidInstructionKeysError", instruction |-> NoInstruction]
             ELSE [err |-> "",
                   instruction |->
                      [type |-> t, source |-> ix.keys[1], destination |-> ix.keys[2],
                       owner |-> ix.keys[3], mint |-> NoMeta,
                       amount |-> ix.data.amount, decimals |-> 0]]
        ELSE IF t = "TransferChecked"
        THEN IF n < 4
             THEN [err |-> "TokenInvalidInstructionKeysError", instruction |-> NoInstruction]
             ELSE [err |-> "",
                   instruction |->
                      [type |-> t, source |-> ix.keys[1], mint |-> ix.keys[2],
                       destination |-> ix.keys[3], owner |-> ix.keys[4],
                       amount |-> ix.data.amount, decimals |-> ix.data.decimals]]
        ELSE IF t = "Approve"
        THEN [err |-> "", instruction |-> [NoInstruction EXCEPT !.type = t]]
        ELSE [err |-> "TokenInvalidInstructionTypeError", instruction |-> NoInstruction]

isTransferInstruction(d) == d.type = "Transfer"
isTransferCheckedInstruction(d) == d.type = "TransferChecked"

\* The checks on the source account fetched from the ledger.
SourceError(d, account) ==
    IF account.owner # d.owner.pubkey THEN "source invalid owner"
    ELSE IF account.isFrozen THEN "source frozen"
    ELSE IF account.amount < d.amount THEN "source insufficient balance"
    ELSE ""

\* A variant that accepts any amount.
AmountError_anyAmount(d, token) == ""

\* A variant that rejects the fee itself.
AmountError_strict(d, token) ==
    IF d.amount <= token.fee THEN "invalid amount" ELSE ""

\* The check that the instruction pays the fee.
AmountError(d, token) ==
    IF d.amount < token.fee THEN "invalid amount" ELSE ""

\* A variant that looks for the owner in the first signature slot.
RoleError_ownerInFirstSlot(tx, d, token) ==
    IF d.source.isSigner THEN "source is signer"
    ELSE IF d.destination.pubkey # token.account THEN "invalid destination"
    ELSE IF ~d.destination.isWritable THEN "destination not writable"
    ELSE IF d.destination.isSigner THEN "destination is signer"
    ELSE IF Len(tx.signatures) < 1 THEN "TypeError"
    ELSE IF d.owner.pubkey # tx.signatures[1].publicKey THEN "owner missing signature"
    ELSE IF d.owner.isWritable THEN "owner is writable"
    ELSE IF ~d.owner.isSigner THEN "owner not signer"
    ELSE ""

\* A variant that accepts any destination.
RoleError_anyDestination(tx, d, token) ==
    IF d.source.isSigner THEN "source is signer"
    ELSE IF ~d.destination.isWritable THEN "destination not writable"
    ELSE IF d.destination.isSigner THEN "destination is signer"
    ELSE IF Len(tx.signatures) < 2 THEN "TypeError"
    ELSE IF tx.signatures[2].publicKey = NoKey THEN "TypeError"
    ELSE IF d.owner.pubkey # tx.signatures[2].publicKey THEN "owner missing signature"
    ELSE IF d.owner.isWritable THEN "owner is writable"
    ELSE IF ~d.owner.isSigner THEN "owner not signer"
    ELSE ""

\* The checks on the roles of source, destination and owner.
RoleError(tx, d, token) ==
    IF d.source.isSigner THEN "source is signer"
    ELSE IF d.destination.pubkey # token.account THEN "invalid destination"
    ELSE IF ~d.destination.isWritable THEN "destination not writable"
    ELSE IF d.destination.isSigner THEN "destination is signer"
    ELSE IF Len(tx.signatures) < 2 THEN "TypeError"
    ELSE IF tx.signatures[2].publicKey = NoKey THEN "TypeError"
    ELSE IF d.owner.pubkey # tx.signatures[2].publicKey THEN "owner missing signature"
    ELSE IF d.owner.isWritable THEN "owner is writable"
    ELSE IF ~d.owner.isSigner THEN "owner not signer"
    ELSE ""

\* A variant that applies the checks to both kinds of transfer.
CheckedError_everyTransfer(d, token) ==
    IF d.decimals # token.decimals THEN "invalid decimals"
    ELSE IF d.mint.pubkey # token.mint THEN "invalid mint"
    ELSE IF d.mint.isWritable THEN "mint is writable"
    ELSE IF d.mint.isSigner THEN "mint is signer"
    ELSE ""

\* The checks of the TransferChecked variant.
CheckedError(d, token) ==
    IF ~isTransferCheckedInstruction(d) THEN ""
    ELSE IF d.decimals # token.decimals THEN "invalid decimals"
    ELSE IF d.mint.pubkey # token.mint THEN "invalid mint"
    ELSE IF d.mint.isWritable THEN "mint is writable"
    ELSE IF d.mint.isSigner THEN "mint is signer"
    ELSE ""

\* The first of the errors, in the order given ("" when there is none).
RECURSIVE FirstError(_)
FirstError(errs) ==
    IF errs = <<>> THEN ""
    ELSE IF Head(errs) # "" THEN Head(errs)
    ELSE FirstError(Tail(errs))

\* validateTransfer with the ledger's answer for the source account: the error
\* ("" for none) and the decoded instruction it returns.
validateTransfer(tx, account, allowedTokens) ==
    LET i == FindIndex(tx.instructions, 1, TOKEN_PROGRAM_ID)
        Fail(e) == [err |-> e, instruction |-> NoInstruction]
    IN  IF i = 0 THEN Fail("missing token instruction")
        ELSE
        LET dec == decodeInstruction(tx.instructions[i])
            d == dec.instruction
        IN  IF dec.err # "" THEN Fail(dec.err)
            ELSE IF ~(isTransferInstruction(d) \/ isTransferCheckedInstruction(d))
            THEN Fail("invalid instruction")
            ELSE IF ~account.found THEN Fail("TokenAccountNotFoundError")
            ELSE IF SourceError(d, account) # "" THEN Fail(SourceError(d, account))
            ELSE
            LET t == FindToken(allowedTokens, 1, account.mint)
            IN  IF t = 0 THEN Fail("invalid token")
                ELSE
                LET e == FirstError(<<AmountError(d, allowedTokens[t]),
                                      RoleError(tx, d, allowedTokens[t]),
                                      CheckedError(d, allowedTokens[t])>>)
                IN  IF e # "" THEN Fail(e) ELSE [err |-> "", instruction |-> d]

(***************************************************************************)
(* validateAccountInitializationInstructions.                              *)
(***************************************************************************)
\* spl-token getAssociatedTokenAddress(mint, owner): the derived address.
getAssociatedTokenAddress(mint, owner) ==
    IF mint = MintKey /\ owner = NewOwnerKey THEN "ATA_MINT_NEWOWNER"
    ELSE IF mint = MintKey /\ owner = OwnerKey THEN "ATA_MINT_OWNER"
    ELSE IF mint = OtherMintKey /\ owner = NewOwnerKey THEN "ATA_MINTX_NEWOWNER"
    ELSE "ATA_OTHER"

\* spl-token createAssociatedTokenAccountInstruction: the reference instruction.
createAssociatedTokenAccountInstruction(payer, associatedToken, owner, mint) ==
    Ix(ASSOCIATED_TOKEN_PROGRAM_ID,
       << Meta(payer, TRUE, TRUE), Meta(associatedToken, FALSE, TRUE),
          Meta(owner, FALSE, FALSE), Meta(mint, FALSE, FALSE),
          Meta(SYSTEM_PROGRAM_ID, FALSE, FALSE), Meta(TOKEN_PROGRAM_ID, FALSE, FALSE) >>,
       Data("", 0, 0))

\* ./instructions areInstructionsEqual: program id, account list and data agree.
areInstructionsEqual(a, b) ==
    a.programId = b.programId /\ a.keys = b.keys /\ a.data = b.data

\* The associated account a transaction asks to create (keys 3 and 4 of its second
\* instruction, as deserialized).
AssociatedTokenOf(tx) ==
    CHOOSE associatedToken \in
        { getAssociatedTokenAddress(ix.keys[4].pubkey, ix.keys[3].pubkey)
          : ix \in { TransactionFrom(raw).instructions[2] : raw \in {Serialize(tx)} } } : TRUE

\* A variant that leaves the blockhash out of the key.
AccountKey_accountOnly(tx) == <<"account", "", AssociatedTokenOf(tx)>>

\* The cache key marking an account creation within one recent blockhash.
AccountKey(tx) == <<"account", tx.recentBlockhash, AssociatedTokenOf(tx)>>

\* A variant that does not ask the ledger whether the account exists.
AccountInitError_ledgerNotAsked(originalTransaction, feePayer, exists) ==
    LET transaction == TransactionFrom(Serialize(originalTransaction))
    IN  IF ~CanCompile(originalTransaction) \/ ~SignaturesVerify(originalTransaction, FALSE)
           \/ Len(transaction.instructions) # 2
        THEN "transaction should contain 2 instructions: fee payment, account init"
        ELSE IF transaction.instructions[2].programId # ASSOCIATED_TOKEN_PROGRAM_ID
                \/ Len(transaction.instructions[2].keys) < 4
        THEN "account instruction should call associated token program"
        ELSE IF ~areInstructionsEqual(
                    createAssociatedTokenAccountInstruction(
                        feePayer, AssociatedTokenOf(originalTransaction),
                        transaction.instructions[2].keys[3].pubkey,
                        transaction.instructions[2].keys[4].pubkey),
                    transaction.instructions[2])
        THEN "unable to match associated account instruction"
        ELSE ""

\* The checks up to the cache lookup, with the ledger's answer to getAccountInfo
\* (whether the associated account exists): the error, "" for none.
AccountInitError(originalTransaction, feePayer, exists) ==
    IF ~CanCompile(originalTransaction) THEN "Transaction compile error"
    ELSE IF ~SignaturesVerify(originalTransaction, FALSE) THEN "Signature verification failed"
    ELSE
    CHOOSE error \in
      { IF Len(transaction.instructions) # 2
        THEN "transaction should contain 2 instructions: fee payment, account init"
        ELSE
        LET instruction == transaction.instructions[2]
        IN  IF instruction.programId # ASSOCIATED_TOKEN_PROGRAM_ID
            THEN "account instruction should call associated token program"
            ELSE IF Len(instruction.keys) < 4 THEN "TypeError"
            ELSE IF exists THEN "account already exists"
            ELSE IF ~areInstructionsEqual(
                        createAssociatedTokenAccountInstruction(
                            feePayer, AssociatedTokenOf(originalTransaction),
                            instruction.keys[3].pubkey, instruction.keys[4].pubkey),
                        instruction)
            THEN "unable to match associated account instruction"
            ELSE ""
        : transaction \in { TransactionFrom(raw) : raw \in {Serialize(originalTransaction)} } }
      : TRUE

(***************************************************************************)
(* The cache (cache-manager): get and set by key.  A value is a number:    *)
(* true is 1, a timestamp is Date.now(), and a key that is not set reads   *)
(* as 0, which JavaScript takes for false like undefined.                   *)
(***************************************************************************)
CacheGet(c, key) == IF key \in DOMAIN c THEN c[key] ELSE 0
CacheSet(c, key, value) == [k \in DOMAIN c \cup {key} |-> IF k = key THEN value ELSE c[k]]
Truthy(v) == v # 0

\* `transaction/${base58.encode(sha256(transaction.serializeMessage()))}`
TransactionKey(tx) == <<"transaction", MessageHash(tx)>>

\* A variant with one cooldown for both orchestrators.
LastSignatureKey_oneFamily(kind, source) == <<"transfer/lastSignature", source>>

\* `transfer/lastSignature/${source}` and `createAccount/lastSignature/${source}`
LastSignatureKey(kind, source) ==
    IF kind = "sign" THEN <<"transfer/lastSignature", source>>
    ELSE <<"createAccount/lastSignature", source>>

\* A variant that still locks out when exactly the timeout has elapsed.
LockedOut_inclusive(lastSignature, t, timeout) ==
    Truthy(lastSignature) /\ t - lastSignature <= timeout

\* The lockout test: a stored timestamp younger than the timeout.
LockedOut(lastSignature, t, timeout) ==
    Truthy(lastSignature) /\ t - lastSignature < timeout

(***************************************************************************)
(* The transactions submitted to the orchestrators, and the ledger's       *)
(* answers.                                                                *)
(***************************************************************************)
OwnerSlots == << Slot(FeePayerKey, NoSig), Slot(OwnerKey, SigBy(OwnerKey)) >>

TransferCheckedIx(dst, amount) ==
    Ix(TOKEN_PROGRAM_ID,
       << Meta(SourceKey, FALSE, TRUE), Meta(MintKey, FALSE, FALSE),
          Meta(dst, FALSE, TRUE), Meta(OwnerKey, TRUE, FALSE) >>,
       Data("TransferChecked", amount, AllowedTokens[1].decimals))

TransferIx(dst, amount) ==
    Ix(TOKEN_PROGRAM_ID,
       << Meta(SourceKey, FALSE, TRUE), Meta(dst, FALSE, TRUE), Meta(OwnerKey, TRUE, FALSE) >>,
       Data("Transfer", amount, 0))

CreateIx ==
    createAssociatedTokenAccountInstruction(
        FeePayerKey, getAssociatedTokenAddress(MintKey, NewOwnerKey), NewOwnerKey, MintKey)

\* An instruction of another program that names the fee payer with the given flags.
SystemIx(s, w) ==
    Ix(SYSTEM_PROGRAM_ID, << Meta(OtherKey, FALSE, TRUE), Meta(FeePayerKey, s, w) >>,
       Data("SystemTransfer", 1, 0))

Fee == AllowedTokens[1].fee

\* Scenario A: one TransferChecked of the fee, signed by the owner.
TxA == Tx(FeePayerKey, "B1", OwnerSlots, << TransferCheckedIx(DestKey, Fee) >>)
\* The same payment under another blockhash: another message, the same source.
TxA2 == Tx(FeePayerKey, "B2", OwnerSlots, << TransferCheckedIx(DestKey, Fee) >>)
\* A plain Transfer paying more than the fee.
TxPlain == Tx(FeePayerKey, "B1", OwnerSlots, << TransferIx(DestKey, Fee + 1) >>)
\* Scenario A with a second instruction naming the fee payer as a signer.
TxDrain ==
    Tx(FeePayerKey, "B1", OwnerSlots, << TransferCheckedIx(DestKey, Fee), SystemIx(TRUE, FALSE) >>)
\* The same with the fee payer named read-only.
TxNamed ==
    Tx(FeePayerKey, "B1", OwnerSlots, << TransferCheckedIx(DestKey, Fee), SystemIx(FALSE, FALSE) >>)
\* Scenario B: the destination is not Octane's account.
TxBadDest == Tx(FeePayerKey, "B1", OwnerSlots, << TransferCheckedIx(OtherKey, Fee) >>)
\* The amount is below the fee.
TxLow == Tx(FeePayerKey, "B1", OwnerSlots, << TransferCheckedIx(DestKey, Fee - 1) >>)
\* Slot 0 already holds signature bytes, put there by the client.
TxPresigned ==
    Tx(FeePayerKey, "B1",
       << Slot(FeePayerKey, BadSigBy(FeePayerKey)), Slot(OwnerKey, SigBy(OwnerKey)) >>,
       << TransferCheckedIx(DestKey, Fee) >>)
\* No recent blockhash: the message cannot be compiled.
TxNoBlockhash == Tx(FeePayerKey, NoBlockhash, OwnerSlots, << TransferCheckedIx(DestKey, Fee) >>)
\* Fee payment, then the creation of an associated token account.
TxCreate == Tx(FeePayerKey, "B1", OwnerSlots, << TransferIx(DestKey, Fee), CreateIx >>)
\* The same with a fee payment to another account.
TxCreateBadDest == Tx(FeePayerKey, "B1", OwnerSlots, << TransferIx(OtherKey, Fee), CreateIx >>)

Request(kind, tx) == [kind |-> kind, tx |-> tx]

\* The requests of concurrent clients.
Requests ==
    { Request("sign", tx) :
        tx \in {TxA, TxNamed, TxDrain, TxBadDest, TxLow, TxPresigned, TxNoBlockhash} }
    \cup
    { Request("create", tx) : tx \in {TxCreate, TxCreateBadDest} }

\* The requests of the sequential client.
SeqRequests ==
    { Request("sign", TxA), Request("sign", TxA2), Request("sign", TxPlain),
      Request("sign", TxBadDest), Request("create", TxCreate), Request("create", TxPlain) }

\* What getAccount may answer for the source account.
LedgerAccounts ==
    { Account(OwnerKey, FALSE, Fee + 1, MintKey), Account(OwnerKey, FALSE, Fee + 1, OtherMintKey) }

(***************************************************************************)
(* The orchestrators: signWithTokenFee ("sign") and                        *)
(* createAccountIfTokenFeePaid ("create"), one action per stage.           *)
(***************************************************************************)
(***************************************************************************)
(* simulateRawTransaction: the dry run of the serialized transaction.      *)
(***************************************************************************)
\* What the ledger's simulateTransaction answers (simulated.value): an execution
\* error or none, and the compute units used.
SimulationResults ==
    { [err |-> "", unitsConsumed |-> 1], [err |-> "InstructionError", unitsConsumed |-> 1] }

NoSimulation == [err |-> "", unitsConsumed |-> 0]

\* A variant that returns whatever the dry run said.
simulateRawTransaction_errorReturned(rawTransaction, simulated) ==
    [err |-> "", value |-> simulated]

\* if (simulated.value.err) throw 'Simulation error'; return simulated.value
simulateRawTransaction(rawTransaction, simulated) ==
    IF simulated.err # ""
    THEN [err |-> "Simulation error", value |-> NoSimulation]
    ELSE [err |-> "", value |-> simulated]

Slots == 1 .. NumInv

Idle ==
    [kind |-> "none", pc |-> "idle", tx |-> Tx(NoKey, NoBlockhash, <<>>, <<>>),
     timeout |-> 0, seen |-> 0, signature |-> NoSignature, rawTransaction |-> NoRaw,
     account |-> AccountNotFound, exists |-> FALSE, transfer |-> NoInstruction,
     simulated |-> NoSimulation, error |-> "", stages |-> <<>>]

Running(i) == inv[i].pc \notin {"idle", "returned", "failed"}

\* throw: the invocation ends with the error.
Throw(i, e) == [inv EXCEPT ![i].pc = "failed", ![i].error = e]

\* Date.now(): a reading is never before the one before it.
Readings(t, n) ==
    {t} \cup (IF n < MaxTicks THEN {t + sameSourceTimeout - 1, t + sameSourceTimeout} ELSE {})

\* The orchestrator is called and runs to its first await:
\* key = transaction/<hash>; await cache.get(key)
Called(r) ==
    IF ~CanCompile(r.tx)
    THEN [Idle EXCEPT !.kind = r.kind, !.tx = r.tx, !.timeout = sameSourceTimeout,
                      !.pc = "failed", !.error = "Transaction compile error"]
    ELSE [Idle EXCEPT !.kind = r.kind, !.tx = Compile(r.tx), !.timeout = sameSourceTimeout,
                      !.pc = "dedupSet",
                      !.seen = CacheGet(cache, TransactionKey(r.tx))]

\* A request arrives while others may be in flight: the API layer calls an
\* orchestrator on the Transaction it decoded.
Start(i) ==
    /\ inv[i].pc = "idle"
    /\ \A j \in Slots : j < i => inv[j].pc # "idle"
    /\ \E r \in Requests : inv' = [inv EXCEPT ![i] = Called(r)]
    /\ UNCHANGED <<cache, now, ticks, calls, past, vin, vout>>

\* What a completed invocation leaves to the history.
Summary(v) ==
    [kind |-> v.kind, hash |-> MessageHash(v.tx), error |-> v.error, stages |-> v.stages,
     source |-> v.transfer.source.pubkey]

\* The sequential client calls an orchestrator once the call before has ended.
Submit(i) ==
    /\ ~Running(i)
    /\ calls < MaxCalls
    /\ \E r \in SeqRequests : inv' = [inv EXCEPT ![i] = Called(r)]
    /\ past' = IF inv[i].pc = "idle" THEN past ELSE Append(past, Summary(inv[i]))
    /\ calls' = calls + 1
    /\ UNCHANGED <<cache, now, ticks, vin, vout>>

\* A variant of the step that marks nothing.
DedupSet_notStored(i) ==
    /\ inv[i].pc = "dedupSet"
    /\ inv' = IF Truthy(inv[i].seen)
              THEN Throw(i, "duplicate transaction")
              ELSE [inv EXCEPT ![i].pc = "validateTransaction",
                               ![i].stages = Append(@, "dedup")]
    /\ UNCHANGED <<cache, now, ticks, calls, past, vin, vout>>

\* if (seen) throw 'duplicate transaction'; await cache.set(key, true)
DedupSet(i) ==
    /\ inv[i].pc = "dedupSet"
    /\ IF Truthy(inv[i].seen)
       THEN /\ inv' = Throw(i, "duplicate transaction")
            /\ UNCHANGED cache
       ELSE /\ cache' = CacheSet(cache, TransactionKey(inv[i].tx), 1)
            /\ inv' = [inv EXCEPT ![i].pc = "validateTransaction",
                                  ![i].stages = Append(@, "dedup")]
    /\ UNCHANGED <<now, ticks, calls, past, vin, vout>>

\* await validateTransaction(connection, transaction, feePayer, maxSignatures, ...)
ValidateTransaction(i) ==
    /\ inv[i].pc = "validateTransaction"
    /\ \E r \in {validateTransaction(inv[i].tx, Config.maxSignatures)} :
           inv' = IF r.err # ""
                  THEN [Throw(i, r.err) EXCEPT ![i].tx = r.tx]
                  ELSE [inv EXCEPT ![i].tx = r.tx,
                                   ![i].signature = r.signature,
                                   ![i].rawTransaction = r.rawTransaction,
                                   ![i].stages = Append(@, "envelope"),
                                   ![i].pc = IF inv[i].kind = "sign"
                                             THEN "validateInstructions"
                                             ELSE "validateAccountInit"]
    /\ UNCHANGED <<cache, now, ticks, calls, past, vin, vout>>

\* A variant of the step that does not wait for the validator's verdict.
ValidateInstructions_notAwaited(i) ==
    /\ inv[i].pc = "validateInstructions"
    /\ inv' = [inv EXCEPT ![i].pc = "validateTransfer"]
    /\ UNCHANGED <<cache, now, ticks, calls, past, vin, vout>>

\* await validateInstructions(transaction, feePayer)
ValidateInstructions(i) ==
    /\ inv[i].pc = "validateInstructions"
    /\ LET r == validateInstructions(inv[i].tx, FeePayerKey)
       IN  inv' = IF r.err # ""
                  THEN Throw(i, r.err)
                  ELSE [inv EXCEPT ![i].pc = "validateTransfer",
                                   ![i].stages = Append(@, "security")]
    /\ UNCHANGED <<cache, now, ticks, calls, past, vin, vout>>

\* validateAccountInitializationInstructions up to its await cache.get(cacheKey)
ValidateAccountInit(i) ==
    /\ inv[i].pc = "validateAccountInit"
    /\ \E exists \in BOOLEAN :
          \E e \in {AccountInitError(inv[i].tx, FeePayerKey, exists)} :
              IF e # ""
              THEN inv' = [Throw(i, e) EXCEPT ![i].exists = exists]
              ELSE \E cacheKey \in {AccountKey(inv[i].tx)} :
                      inv' = [inv EXCEPT ![i].pc = "accountInitMark",
                                         ![i].exists = exists,
                                         ![i].seen = CacheGet(cache, cacheKey)]
    /\ UNCHANGED <<cache, now, ticks, calls, past, vin, vout>>

\* A variant that looks the marker up and does not set it.
AccountInitMark_notStored(i) ==
    /\ inv[i].pc = "accountInitMark"
    /\ inv' = IF Truthy(inv[i].seen)
              THEN Throw(i, "duplicate account within same recent blockhash")
              ELSE [inv EXCEPT ![i].pc = "validateTransfer",
                               ![i].stages = Append(@, "accountInit")]
    /\ UNCHANGED <<cache, now, ticks, calls, past, vin, vout>>

\* if (seen) throw 'duplicate account ...'; await cache.set(cacheKey, true)
AccountInitMark(i) ==
    /\ inv[i].pc = "accountInitMark"
    /\ IF Truthy(inv[i].seen)
       THEN /\ inv' = Throw(i, "duplicate account within same recent blockhash")
            /\ UNCHANGED cache
       ELSE /\ \E cacheKey \in {AccountKey(inv[i].tx)} :
                    cache' = CacheSet(cache, cacheKey, 1)
            /\ inv' = [inv EXCEPT ![i].pc = "validateTransfer",
                                  ![i].stages = Append(@, "accountInit")]
    /\ UNCHANGED <<now, ticks, calls, past, vin, vout>>

\* A variant that goes on to the lockout whatever the validator said.
ValidateTransfer_errorIgnored(i) ==
    /\ inv[i].pc = "validateTransfer"
    /\ \E account \in LedgerAccounts :
          LET r == validateTransfer(inv[i].tx, account, AllowedTokens)
          IN  inv' = [inv EXCEPT
                        ![i].pc = "lockSet",
                        ![i].account = account,
                        ![i].transfer = r.instruction,
                        ![i].stages = IF r.err = "" THEN Append(@, "transfer") ELSE @,
                        ![i].seen = CacheGet(cache,
                                             LastSignatureKey(inv[i].kind,
                                                              r.instruction.source.pubkey))]
    /\ UNCHANGED <<cache, now, ticks, calls, past, vin, vout>>

\* const transfer = await validateTransfer(connection, transaction, allowedTokens)
\* and, once the ledger has answered, on to the next await:
\* key = <family>/lastSignature/<source>; lastSignature = await cache.get(key)
ValidateTransfer(i) ==
    /\ inv[i].pc = "validateTransfer"
    /\ \E account \in LedgerAccounts :
          LET r == validateTransfer(inv[i].tx, account, AllowedTokens)
          IN  inv' = IF r.err # ""
                     THEN [Throw(i, r.err) EXCEPT ![i].account = account]
                     ELSE [inv EXCEPT
                             ![i].pc = "lockSet",
                             ![i].account = account,
                             ![i].transfer = r.instruction,
                             ![i].stages = Append(@, "transfer"),
                             ![i].seen = CacheGet(cache,
                                                  LastSignatureKey(inv[i].kind,
                                                                   r.instruction.source.pubkey))]
    /\ UNCHANGED <<cache, now, ticks, calls, past, vin, vout>>

\* A variant that checks the cooldown and leaves the recording for later.
LockSet_notStamped(i) ==
    /\ inv[i].pc = "lockSet"
    /\ \E t \in Readings(now, ticks) :
          /\ now' = t
          /\ ticks' = IF t = now THEN ticks ELSE ticks + 1
          /\ inv' = IF LockedOut(inv[i].seen, t, inv[i].timeout)
                    THEN Throw(i, "duplicate transfer")
                    ELSE [inv EXCEPT ![i].pc = "simulate",
                                     ![i].stages = Append(@, "lockout")]
    /\ UNCHANGED <<cache, calls, past, vin, vout>>

\* A variant that records the time of a refused attempt as well.
LockSet_stampsRefused(i) ==
    /\ inv[i].pc = "lockSet"
    /\ \E t \in Readings(now, ticks) :
          /\ now' = t
          /\ ticks' = IF t = now THEN ticks ELSE ticks + 1
          /\ cache' = CacheSet(cache,
                                LastSignatureKey(inv[i].kind, inv[i].transfer.source.pubkey), t)
          /\ inv' = IF LockedOut(inv[i].seen, t, inv[i].timeout)
                    THEN Throw(i, "duplicate transfer")
                    ELSE [inv EXCEPT ![i].pc = "simulate",
                                     ![i].stages = Append(@, "lockout")]
    /\ UNCHANGED <<calls, past, vin, vout>>

\* if (lastSignature && Date.now() - lastSignature < sameSourceTimeout) throw
\* 'duplicate transfer'; await cache.set(key, Date.now())
LockSet(i) ==
    /\ inv[i].pc = "lockSet"
    /\ \E t \in Readings(now, ticks) :
          /\ now' = t
          /\ ticks' = IF t = now THEN ticks ELSE ticks + 1
          /\ IF LockedOut(inv[i].seen, t, inv[i].timeout)
             THEN /\ inv' = Throw(i, "duplicate transfer")
                  /\ UNCHANGED cache
             ELSE /\ cache' = CacheSet(cache,
                                       LastSignatureKey(inv[i].kind,
                                                        inv[i].transfer.source.pubkey),
                                       t)
                  /\ inv' = [inv EXCEPT ![i].pc = "simulate",
                                        ![i].stages = Append(@, "lockout")]
    /\ UNCHANGED <<calls, past, vin, vout>>

\* A variant that asks for the simulation again when it reported an error.
Simulate_retries(i) ==
    /\ inv[i].pc = "simulate"
    /\ \E simulated \in SimulationResults :
          inv' = IF simulated.err # ""
                 THEN [inv EXCEPT ![i].simulated = simulated]
                 ELSE [inv EXCEPT ![i].pc = "returned",
                                  ![i].simulated = simulated,
                                  ![i].stages = Append(@, "simulation")]
    /\ UNCHANGED <<cache, now, ticks, calls, past, vin, vout>>

\* A variant that takes the cooldown back when the simulation fails.
Simulate_rollsBack(i) ==
    /\ inv[i].pc = "simulate"
    /\ \E simulated \in SimulationResults :
          IF simulated.err # ""
          THEN /\ inv' = [Throw(i, "Simulation error") EXCEPT ![i].simulated = simulated]
               /\ cache' = [k \in DOMAIN cache \ {LastSignatureKey(inv[i].kind,
                                                                    inv[i].transfer.source.pubkey)}
                              |-> cache[k]]
          ELSE /\ inv' = [inv EXCEPT ![i].pc = "returned",
                                     ![i].simulated = simulated,
                                     ![i].stages = Append(@, "simulation")]
               /\ UNCHANGED cache
    /\ UNCHANGED <<now, ticks, calls, past, vin, vout>>

\* await simulateRawTransaction(connection, rawTransaction); return { signature }
Simulate(i) ==
    /\ inv[i].pc = "simulate"
    /\ \E simulated \in SimulationResults :
          LET r == simulateRawTransaction(inv[i].rawTransaction, simulated)
          IN  inv' = IF r.err # ""
                     THEN [Throw(i, r.err) EXCEPT ![i].simulated = simulated]
                     ELSE [inv EXCEPT ![i].pc = "returned",
                                      ![i].simulated = simulated,
                                      ![i].stages = Append(@, "simulation")]
    /\ UNCHANGED <<cache, now, ticks, calls, past, vin, vout>>

NoValidator == [kind |-> "none"]

Init ==
    /\ cache = <<>>
    /\ now = 1
    /\ ticks = 0
    /\ inv = [i \in Slots |-> Idle]
    /\ calls = 0
    /\ past = <<>>
    /\ vin = NoValidator
    /\ vout = NoValidator

Step(i) ==
    \/ DedupSet(i)
    \/ ValidateTransaction(i)
    \/ ValidateInstructions(i)
    \/ ValidateAccountInit(i)
    \/ AccountInitMark(i)
    \/ ValidateTransfer(i)
    \/ LockSet(i)
    \/ Simulate(i)

\* Concurrent requests.
Next == \E i \in Slots : Start(i) \/ Step(i)

Spec == Init /\ [][Next]_vars

\* One client, one request after the other.
SeqNext == Submit(1) \/ Step(1)

SeqSpec == Init /\ [][SeqNext]_vars

\* Concurrent requests whose awaited cache and ledger calls all return: a step
\* that stays possible is taken.  The first request is a fee payment to a wrong
\* destination or an account creation; the requests that arrive while it is in
\* flight are the well-formed fee payment.
LiveRequests(i) ==
    IF i = 1
    THEN { Request("sign", TxBadDest), Request("create", TxCreate) }
    ELSE { Request("sign", TxA) }

Invoke(i) ==
    /\ inv[i].pc = "idle"
    /\ \A j \in Slots : j < i => inv[j].pc # "idle"
    /\ \E r \in LiveRequests(i) : inv' = [inv EXCEPT ![i] = Called(r)]
    /\ UNCHANGED <<cache, now, ticks, calls, past, vin, vout>>

\* A continuation whose awaited call has returned.
Resume == \E i \in Slots : Step(i)

LiveNext == (\E i \in Slots : Invoke(i)) \/ Resume

\* The event loop runs a continuation that is ready.
LiveSpec == Init /\ [][LiveNext]_vars /\ WF_vars(Resume)

(***************************************************************************)
(* Infrastructure faults: an awaited cache or ledger call is rejected.  The *)
(* rejection is thrown at the await, and the catch blocks pass it on as it  *)
(* is.  A rejected call is taken to have had no effect on the cache.        *)
(***************************************************************************)
\* What a rejected call throws: not an Error of the validators.
NetworkFault == "NetworkFault"

\* The positions whose next step awaits the cache or the ledger: cache.set,
\* getAccountInfo and cache.get, cache.set, getAccount and cache.get, cache.set,
\* simulateTransaction.
AwaitsExternalCall ==
    {"dedupSet", "validateAccountInit", "accountInitMark", "validateTransfer", "lockSet",
     "simulate"}

\* A variant that reports a rejected call as a failed simulation.
Fault_asSimulationError(i) ==
    /\ inv[i].pc \in AwaitsExternalCall
    /\ inv' = Throw(i, "Simulation error")
    /\ UNCHANGED <<cache, now, ticks, calls, past, vin, vout>>

\* The call awaited next is rejected: catch (error) { ...; throw error }
Fault(i) ==
    /\ inv[i].pc \in AwaitsExternalCall
    /\ inv' = Throw(i, NetworkFault)
    /\ UNCHANGED <<cache, now, ticks, calls, past, vin, vout>>

\* The first await of an invocation, cache.get(key) of the dedup, is rejected.
InvokeFault(i) ==
    /\ inv[i].pc = "idle"
    /\ \A j \in Slots : j < i => inv[j].pc # "idle"
    /\ \E r \in LiveRequests(i) :
          /\ CanCompile(r.tx)
          /\ inv' = [inv EXCEPT ![i] = [Called(r) EXCEPT !.pc = "failed", !.seen = 0,
                                                         !.error = NetworkFault]]
    /\ UNCHANGED <<cache, now, ticks, calls, past, vin, vout>>

\* validateTransfer when getAccount finds no token account at the source address:
\* the validator throws, what it throws is passed on.
SourceNotFound(i) ==
    /\ inv[i].pc = "validateTransfer"
    /\ \E r \in {validateTransfer(inv[i].tx, AccountNotFound, AllowedTokens)} :
          inv' = [Throw(i, r.err) EXCEPT ![i].account = AccountNotFound]
    /\ UNCHANGED <<cache, now, ticks, calls, past, vin, vout>>

FaultNext ==
    \E i \in Slots : Invoke(i) \/ InvokeFault(i) \/ Step(i) \/ SourceNotFound(i) \/ Fault(i)

FaultSpec == Init /\ [][FaultNext]_vars

(***************************************************************************)
(* createAccountIfTokenFeePaid on generated transactions: the fee transfer  *)
(* may give the role of the destination or of the owner to the fee payer,   *)
(* and may name one more account after the owner.                           *)
(***************************************************************************)
\* The account references that may follow the owner's.
ExtraRefs ==
    {<<>>} \cup { <<Meta(k, sg, wr)>> : k \in {FeePayerKey, OtherKey},
                                       sg \in BOOLEAN, wr \in BOOLEAN }

CreateTransferIx(type, role, extra) ==
    LET ix == IF type = "Transfer" THEN TransferIx(DestKey, Fee)
              ELSE TransferCheckedIx(DestKey, Fee)
        at == CASE role = "destination" -> Len(ix.keys) - 1
                [] role = "owner" -> Len(ix.keys)
                [] OTHER -> 0
    IN  [ix EXCEPT !.keys =
            [k \in DOMAIN ix.keys |->
                IF k = at THEN [ix.keys[k] EXCEPT !.pubkey = FeePayerKey] ELSE ix.keys[k]]
            \o extra]

CreateRequests ==
    { Request("create",
              Tx(FeePayerKey, "B1", OwnerSlots, << CreateTransferIx(t, role, extra), CreateIx >>))
      : t \in {"Transfer", "TransferChecked"}, role \in {"none", "destination", "owner"},
        extra \in ExtraRefs }

CreateInvoke ==
    /\ inv[1].pc = "idle"
    /\ \E r \in CreateRequests : inv' = [inv EXCEPT ![1] = Called(r)]
    /\ UNCHANGED <<cache, now, ticks, calls, past, vin, vout>>

\* The stages of createAccountIfTokenFeePaid.
CreateStep(i) ==
    \/ DedupSet(i)
    \/ ValidateTransaction(i)
    \/ ValidateAccountInit(i)
    \/ AccountInitMark(i)
    \/ ValidateTransfer(i)
    \/ LockSet(i)
    \/ Simulate(i)

CreateNext == CreateInvoke \/ CreateStep(1)

CreateSpec == Init /\ [][CreateNext]_vars

(***************************************************************************)
(* One client creating accounts, one request after the other: for one      *)
(* blockhash with the fee paid to Octane's account or to another one, and   *)
(* for another blockhash.                                                   *)
(***************************************************************************)
MarkerRequests ==
    { Request("create", TxCreate), Request("create", TxCreateBadDest),
      Request("create", Tx(FeePayerKey, "B2", OwnerSlots, << TransferIx(DestKey, Fee), CreateIx >>)) }

SubmitCreate ==
    /\ ~Running(1)
    /\ calls < MaxCalls
    /\ \E r \in MarkerRequests : inv' = [inv EXCEPT ![1] = Called(r)]
    /\ past' = IF inv[1].pc = "idle" THEN past ELSE Append(past, Summary(inv[1]))
    /\ calls' = calls + 1
    /\ UNCHANGED <<cache, now, ticks, vin, vout>>

MarkerNext == SubmitCreate \/ CreateStep(1)

MarkerSpec == Init /\ [][MarkerNext]_vars

(***************************************************************************)
(* validateInstructions called on its own, on any instruction list within  *)
(* the bounds: the list is built one instruction and one account reference *)
(* at a time, and the validator is run on what has been built.             *)
(***************************************************************************)
GeneratedMetas ==
    { Meta(pk, sg, wr) : pk \in {FeePayerKey, OtherKey}, sg \in BOOLEAN, wr \in BOOLEAN }

RECURSIVE CountRefs(_)
CountRefs(ixs) == IF ixs = <<>> THEN 0 ELSE Len(Head(ixs).keys) + CountRefs(Tail(ixs))

InstrInit ==
    /\ cache = <<>>
    /\ now = 1
    /\ ticks = 0
    /\ inv = [i \in Slots |-> Idle]
    /\ calls = 0
    /\ past = <<>>
    /\ vin = [kind |-> "validateInstructions", tx |-> Tx(FeePayerKey, "B1", OwnerSlots, <<>>)]
    /\ vout = NoValidator

AddInstruction ==
    /\ vin.kind = "validateInstructions"
    /\ Len(vin.tx.instructions) < MaxIx
    /\ vin' = [vin EXCEPT !.tx.instructions =
                 Append(@, Ix(SYSTEM_PROGRAM_ID, <<>>, Data("SystemTransfer", 1, 0)))]
    /\ vout' = NoValidator
    /\ UNCHANGED <<cache, now, ticks, inv, calls, past>>

AddKey ==
    /\ vin.kind = "validateInstructions"
    /\ Len(vin.tx.instructions) > 0
    /\ CountRefs(vin.tx.instructions) < MaxRefs
    /\ \E m \in GeneratedMetas :
          vin' = [vin EXCEPT !.tx.instructions[Len(vin.tx.instructions)].keys = Append(@, m)]
    /\ vout' = NoValidator
    /\ UNCHANGED <<cache, now, ticks, inv, calls, past>>

\* await validateInstructions(transaction, feePayer): the outcome, and the
\* transaction and the cache as the call leaves them.
RunValidateInstructions ==
    /\ vin.kind = "validateInstructions"
    /\ vout = NoValidator
    /\ vout' = [kind |-> "validateInstructions",
                result |-> validateInstructions(vin.tx, FeePayerKey),
                tx |-> vin.tx]
    /\ UNCHANGED <<cache, now, ticks, inv, calls, past, vin>>

InstrNext == AddInstruction \/ AddKey \/ RunValidateInstructions

InstrSpec == InstrInit /\ [][InstrNext]_vars

(***************************************************************************)
(* validateTransfer called on its own.  An input is a well-formed fee      *)
(* payment of some instruction type and amount, together with the ledger's *)
(* state of its source account, made to deviate from well-formed in up to  *)
(* MaxDefects ways.                                                        *)
(***************************************************************************)
MaxAmount == 3      \* the largest amount of a generated transfer
MaxDefects == 2     \* deviations of a generated transfer from a well-formed one

InstructionTypes == {"Transfer", "TransferChecked", "Approve", "Unknown"}

TransferDefects ==
    { "noTokenInstruction", "leadingInstruction",
      "accountMissing", "accountOtherOwner", "frozen", "lowBalance", "accountOtherMint",
      "sourceSigner",
      "otherDestination", "destinationReadOnly", "destinationSigner",
      "oneSlot", "otherOwner", "ownerWritable", "ownerNotSigner",
      "otherDecimals", "otherMint", "mintWritable", "mintSigner" }

\* The token-program instruction of an input.
GeneratedTransferIx(in) ==
    LET has(d) == d \in in.defects
        source == Meta(SourceKey, has("sourceSigner"), TRUE)
        destination == Meta(IF has("otherDestination") THEN OtherKey ELSE DestKey,
                            has("destinationSigner"), ~has("destinationReadOnly"))
        owner == Meta(IF has("otherOwner") THEN OtherKey ELSE OwnerKey,
                      ~has("ownerNotSigner"), has("ownerWritable"))
        mint == Meta(IF has("otherMint") THEN OtherMintKey ELSE MintKey,
                     has("mintSigner"), has("mintWritable"))
        decimals == IF has("otherDecimals") THEN AllowedTokens[1].decimals + 1
                    ELSE AllowedTokens[1].decimals
    IN  IF in.type = "Transfer"
        THEN Ix(TOKEN_PROGRAM_ID, <<source, destination, owner>>, Data(in.type, in.amount, 0))
        ELSE Ix(TOKEN_PROGRAM_ID, <<source, mint, destination, owner>>,
                Data(in.type, in.amount, decimals))

\* The transaction of an input.
GeneratedTransferTx(in) ==
    LET has(d) == d \in in.defects
        signatures == IF has("oneSlot")
                      THEN << Slot(FeePayerKey, SigBy(FeePayerKey)) >>
                      ELSE << Slot(FeePayerKey, SigBy(FeePayerKey)),
                              Slot(OwnerKey, SigBy(OwnerKey)) >>
        other == Ix(SYSTEM_PROGRAM_ID, << Meta(OtherKey, FALSE, TRUE) >>,
                    Data("SystemTransfer", 1, 0))
        instructions == IF has("noTokenInstruction") THEN << other >>
                        ELSE IF has("leadingInstruction")
                        THEN << other, GeneratedTransferIx(in) >>
                        ELSE << GeneratedTransferIx(in) >>
    IN  Tx(FeePayerKey, "B1", signatures, instructions)

\* The ledger's state of the source account of an input.
GeneratedAccount(in) ==
    LET has(d) == d \in in.defects
    IN  IF has("accountMissing") THEN AccountNotFound
        ELSE Account(IF has("accountOtherOwner") THEN OtherKey ELSE OwnerKey,
                     has("frozen"),
                     IF has("lowBalance") /\ in.amount > 0 THEN in.amount - 1 ELSE in.amount,
                     IF has("accountOtherMint") THEN OtherMintKey ELSE MintKey)

TransferInit ==
    /\ cache = <<>>
    /\ now = 1
    /\ ticks = 0
    /\ inv = [i \in Slots |-> Idle]
    /\ calls = 0
    /\ past = <<>>
    /\ \E t \in InstructionTypes, a \in 0 .. MaxAmount :
          vin = [kind |-> "validateTransfer", type |-> t, amount |-> a, defects |-> {}]
    /\ vout = NoValidator

AddDefect ==
    /\ vin.kind = "validateTransfer"
    /\ Cardinality(vin.defects) < MaxDefects
    /\ \E d \in TransferDefects \ vin.defects : vin' = [vin EXCEPT !.defects = @ \cup {d}]
    /\ vout' = NoValidator
    /\ UNCHANGED <<cache, now, ticks, inv, calls, past>>

\* await validateTransfer(connection, transaction, allowedTokens)
RunValidateTransfer ==
    /\ vin.kind = "validateTransfer"
    /\ vout = NoValidator
    /\ vout' = [kind |-> "validateTransfer",
                tx |-> GeneratedTransferTx(vin),
                account |-> GeneratedAccount(vin),
                result |-> validateTransfer(GeneratedTransferTx(vin), GeneratedAccount(vin),
                                            AllowedTokens)]
    /\ UNCHANGED <<cache, now, ticks, inv, calls, past, vin>>

TransferNext == AddDefect \/ RunValidateTransfer

TransferSpec == TransferInit /\ [][TransferNext]_vars

(***************************************************************************)
(* The transfer endpoint of the API: it decodes the request's transaction, *)
(* awaits signWithTokenFee and then returns the signature or broadcasts.   *)
(* vin is the deployment's configuration, vout what the handler has done.  *)
(***************************************************************************)
\* Transaction.from(base58.decode(serialized)): transactions as they arrive.
ApiRequests ==
    { Request("sign", TransactionFrom(Serialize(tx))) : tx \in {TxA, TxNamed, TxBadDest} }

\* transaction.addSignature(pubkey, signature)
AddSignature(tx, pubkey, signature) ==
    [tx EXCEPT !.signatures =
        [k \in DOMAIN Compile(tx).signatures |->
            IF Compile(tx).signatures[k].publicKey = pubkey
            THEN Slot(pubkey, signature)
            ELSE Compile(tx).signatures[k]]]

NoResponse == 0

ApiInit ==
    /\ cache = <<>>
    /\ now = 1
    /\ ticks = 0
    /\ inv = [i \in Slots |-> Idle]
    /\ calls = 0
    /\ past = <<>>
    /\ \E configured \in BOOLEAN : vin = [kind |-> "api", returnSignature |-> configured]
    /\ vout = [kind |-> "api", status |-> [i \in Slots |-> NoResponse], broadcasts |-> {}]

\* const { signature } = await signWithTokenFee(connection, transaction, ...)
Receive(i) ==
    /\ inv[i].pc = "idle"
    /\ \A j \in Slots : j < i => inv[j].pc # "idle"
    /\ \E r \in ApiRequests : inv' = [inv EXCEPT ![i] = Called(r)]
    /\ UNCHANGED <<cache, now, ticks, calls, past, vin, vout>>

\* catch (error): response.status(400).send({ status: 'error', message })
RespondError(i) ==
    /\ inv[i].pc = "failed"
    /\ vout.status[i] = NoResponse
    /\ vout' = [vout EXCEPT !.status[i] = 400]
    /\ UNCHANGED <<cache, now, ticks, inv, calls, past, vin>>

\* if (config.returnSignature !== undefined): the anti-spam check, then the
\* signature is sent back and nothing is broadcast.
ReturnSignature(i) ==
    /\ inv[i].pc = "returned"
    /\ vout.status[i] = NoResponse
    /\ vin.returnSignature
    /\ \E allowed \in BOOLEAN :
          vout' = [vout EXCEPT !.status[i] = IF allowed THEN 200 ELSE 400]
    /\ UNCHANGED <<cache, now, ticks, inv, calls, past, vin>>

\* A variant that broadcasts however signWithTokenFee ended.
Broadcast_whateverTheOutcome(i) ==
    /\ inv[i].pc \in {"returned", "failed"}
    /\ vout.status[i] = NoResponse
    /\ ~vin.returnSignature
    /\ vout' = [vout EXCEPT !.status[i] = 200,
                            !.broadcasts = @ \cup {[slot |-> i, transaction |-> Serialize(inv[i].tx)]}]
    /\ UNCHANGED <<cache, now, ticks, inv, calls, past, vin>>

\* transaction.addSignature(...); await sendAndConfirmRawTransaction(connection,
\* transaction.serialize(), ...): the transaction goes out; the answer is 200
\* when it is confirmed and 400 when serializing or confirming throws.
Broadcast(i) ==
    /\ inv[i].pc = "returned"
    /\ vout.status[i] = NoResponse
    /\ ~vin.returnSignature
    /\ LET signed == AddSignature(inv[i].tx, FeePayerKey, inv[i].signature.base58)
       IN  IF ~SignaturesVerify(signed, TRUE)
           THEN vout' = [vout EXCEPT !.status[i] = 400]
           ELSE \E confirmed \in BOOLEAN :
                   vout' = [vout EXCEPT
                              !.status[i] = IF confirmed THEN 200 ELSE 400,
                              !.broadcasts = @ \cup {[slot |-> i,
                                                      transaction |-> Serialize(signed)]}]
    /\ UNCHANGED <<cache, now, ticks, inv, calls, past, vin>>

\* The steps of signWithTokenFee.
SignStep(i) ==
    \/ DedupSet(i)
    \/ ValidateTransaction(i)
    \/ ValidateInstructions(i)
    \/ ValidateTransfer(i)
    \/ LockSet(i)
    \/ Simulate(i)

ApiNext ==
    \E i \in Slots :
        Receive(i) \/ SignStep(i) \/ RespondError(i) \/ ReturnSignature(i) \/ Broadcast(i)

ApiSpec == ApiInit /\ [][ApiNext]_vars

(***************************************************************************)
(* One client paying fees and creating accounts from one source, one        *)
(* request after the other, with the cooldown duration it passes: none,     *)
(* or 0 with a fee payment.                                                 *)
(***************************************************************************)
\* A variant that takes every falsy argument for a missing one.
DefaultParameter_falsy(sameSourceTimeoutArgument) ==
    IF ~sameSourceTimeoutArgument.given \/ sameSourceTimeoutArgument.ms = 0
    THEN sameSourceTimeout
    ELSE sameSourceTimeoutArgument.ms

\* sameSourceTimeout = 5000 in the parameter list: the default stands in for an
\* argument that is undefined (not given).
DefaultParameter(sameSourceTimeoutArgument) ==
    IF ~sameSourceTimeoutArgument.given THEN sameSourceTimeout
    ELSE sameSourceTimeoutArgument.ms

\* signWithTokenFee(..., cache, sameSourceTimeout?) or
\* createAccountIfTokenFeePaid(..., cache, sameSourceTimeout?) called once the
\* call before has ended; vin keeps the argument of the call.
SubmitWithTimeout ==
    /\ ~Running(1)
    /\ calls < MaxCalls
    /\ \E r \in { Request("sign", tx) : tx \in {TxA, TxA2, TxPlain} }
                  \cup { Request("create", tx) :
                           tx \in {TxCreate, Tx(FeePayerKey, "B2", OwnerSlots,
                                                << TransferIx(DestKey, Fee), CreateIx >>)} },
          argument \in {[given |-> FALSE, ms |-> 0], [given |-> TRUE, ms |-> 0]} :
          /\ argument.given => r.kind = "sign"
          /\ inv' = [inv EXCEPT ![1] = [Called(r) EXCEPT
                                           !.timeout = DefaultParameter(argument)]]
          /\ vin' = [kind |-> r.kind, sameSourceTimeout |-> argument]
    /\ past' = IF inv[1].pc = "idle" THEN past ELSE Append(past, Summary(inv[1]))
    /\ calls' = calls + 1
    /\ UNCHANGED <<cache, now, ticks, vout>>

TimeoutNext == SubmitWithTimeout \/ Step(1)

TimeoutSpec == Init /\ [][TimeoutNext]_vars

(***************************************************************************)
(* validateAccountInitializationInstructions on generated transactions,    *)
(* called by concurrent requests for the same account.                     *)
(***************************************************************************)
AccountDefects ==
    { "oneInstruction", "threeInstructions", "otherProgram", "shortKeys",
      "otherAssociated", "otherPayer", "ownerSigner", "extraData" }

\* What differs between the requests for one input: the blockhash, the amount of
\* the fee payment (another message for the same account) and the mint (another
\* associated account).  The first request fixes the names.
FirstRun == [blockhash |-> "B1", amount |-> Fee, mint |-> MintKey]

RunVariants(i) ==
    IF i = 1 THEN {FirstRun}
    ELSE { FirstRun,
           [FirstRun EXCEPT !.amount = Fee + 1],
           [FirstRun EXCEPT !.blockhash = "B2"],
           [FirstRun EXCEPT !.mint = OtherMintKey] }

\* The second instruction of an input.
GeneratedCreateIx(in, run) ==
    LET has(d) == d \in in.defects
        mint == run.mint
        reference == createAssociatedTokenAccountInstruction(
                         IF has("otherPayer") THEN OwnerKey ELSE FeePayerKey,
                         IF has("otherAssociated") THEN "ATA_OTHER"
                         ELSE getAssociatedTokenAddress(mint, NewOwnerKey),
                         NewOwnerKey, mint)
        keys == [k \in DOMAIN reference.keys |->
                    IF k = 3 /\ has("ownerSigner")
                    THEN Meta(NewOwnerKey, TRUE, FALSE) ELSE reference.keys[k]]
    IN  Ix(IF has("otherProgram") THEN SYSTEM_PROGRAM_ID ELSE ASSOCIATED_TOKEN_PROGRAM_ID,
           IF has("shortKeys") THEN SubSeq(keys, 1, 3) ELSE keys,
           IF has("extraData") THEN Data("", 1, 0) ELSE reference.data)

\* The transaction of an input, as validateTransaction leaves it.
GeneratedCreateTx(in, run) ==
    LET has(d) == d \in in.defects
        fee == TransferIx(DestKey, run.amount)
        instructions == IF has("oneInstruction") THEN << fee >>
                        ELSE IF has("threeInstructions")
                        THEN << fee, GeneratedCreateIx(in, run), SystemIx(FALSE, FALSE) >>
                        ELSE << fee, GeneratedCreateIx(in, run) >>
    IN  PartialSign(Tx(FeePayerKey, run.blockhash, OwnerSlots, instructions), FeePayerKey)

AccountSpecInit ==
    /\ cache = <<>>
    /\ now = 1
    /\ ticks = 0
    /\ inv = [i \in Slots |-> Idle]
    /\ calls = 0
    /\ past = <<>>
    /\ vin = [kind |-> "validateAccountInitializationInstructions", defects |-> {}]
    /\ vout = NoValidator

AddAccountDefect ==
    /\ vin.kind = "validateAccountInitializationInstructions"
    /\ \A i \in Slots : inv[i].pc = "idle"
    /\ Cardinality(vin.defects) < MaxDefects
    /\ \E d \in AccountDefects \ vin.defects : vin' = [vin EXCEPT !.defects = @ \cup {d}]
    /\ UNCHANGED <<cache, now, ticks, inv, calls, past, vout>>

\* await validateAccountInitializationInstructions(connection, transaction, feePayer, cache)
CallAccountInit(i) ==
    /\ inv[i].pc = "idle"
    /\ \A j \in Slots : j < i => inv[j].pc # "idle"
    /\ \E run \in RunVariants(i) :
          inv' = [inv EXCEPT ![i] = [Idle EXCEPT !.kind = "create",
                                                !.tx = GeneratedCreateTx(vin, run),
                                                !.pc = "validateAccountInit"]]
    /\ UNCHANGED <<cache, now, ticks, calls, past, vin, vout>>

AccountNext ==
    \/ AddAccountDefect
    \/ \E i \in Slots : CallAccountInit(i) \/ ValidateAccountInit(i) \/ AccountInitMark(i)

AccountSpec == AccountSpecInit /\ [][AccountNext]_vars

(***************************************************************************)
(* Properties of the pipeline under concurrent requests (Spec).            *)
(***************************************************************************)
Returned(i) == inv[i].pc = "returned"

SignStages == <<"dedup", "envelope", "security", "transfer", "lockout", "simulation">>
CreateStages == <<"dedup", "envelope", "accountInit", "transfer", "lockout", "simulation">>

\* The account references of a transaction: instruction index and position.
References(tx) ==
    UNION { {n} \X DOMAIN tx.instructions[n].keys : n \in DOMAIN tx.instructions }

CustodyReference(tx, ref) ==
    tx.instructions[ref[1]].keys[ref[2]].pubkey = FeePayerKey

Privileged(tx, ref) ==
    \/ tx.instructions[ref[1]].keys[ref[2]].isWritable
    \/ tx.instructions[ref[1]].keys[ref[2]].isSigner

\* C1: whenever signWithTokenFee returns a signature, the invocation has passed
\* dedup, the Envelope Validator, the Instruction Security Validator, the
\* Transfer Validator, the per-source lockout and the Simulation Gate, in this
\* order and each exactly once; it returns the custody signature and no stage of
\* it has failed.
C1_SignReturnsAfterAllStages ==
    \A i \in Slots :
        (inv[i].kind = "sign" /\ Returned(i)) =>
            /\ inv[i].stages = SignStages
            /\ inv[i].error = ""
            /\ inv[i].signature = Base58(SigBy(FeePayerKey))

C1_Witness ==
    \E i \in Slots : inv[i].kind = "sign" /\ Returned(i) /\ inv[i].tx.instructions = TxA.instructions

\* C2: when signWithTokenFee returns a signature, no account reference of any
\* instruction of the transaction, at any index and position, has the custody
\* key while flagged writable or signer.
C2_NoPrivilegedCustodyReference ==
    \A i \in Slots :
        (inv[i].kind = "sign" /\ Returned(i)) =>
            \A ref \in References(inv[i].tx) :
                CustodyReference(inv[i].tx, ref) => ~Privileged(inv[i].tx, ref)

\* A signature was returned for a transaction that names the custody key read-only,
\* and another invocation was refused for naming it as a signer in its second
\* instruction.
C2_Witness ==
    \E i, j \in Slots :
        /\ inv[i].kind = "sign" /\ Returned(i)
        /\ \E ref \in References(inv[i].tx) : CustodyReference(inv[i].tx, ref)
        /\ inv[j].pc = "failed" /\ inv[j].error = "invalid account"
        /\ \E ref \in References(inv[j].tx) :
              ref[1] = 2 /\ CustodyReference(inv[j].tx, ref) /\ Privileged(inv[j].tx, ref)

\* The first token-program instruction of a transaction (0 when there is none).
FirstTokenInstruction(tx) ==
    LET token == { n \in DOMAIN tx.instructions : tx.instructions[n].programId = TOKEN_PROGRAM_ID }
    IN  IF token = {} THEN 0 ELSE CHOOSE n \in token : \A m \in token : n <= m

\* The destination of a transfer instruction as laid out by the token program.
DestinationOf(ix) ==
    IF ix.data.type = "Transfer" THEN ix.keys[2] ELSE ix.keys[3]

\* C3: when either orchestrator returns a signature, the first token-program
\* instruction of the transaction is a Transfer or TransferChecked, the mint of
\* its source account on the ledger is that of an allow-list entry, its
\* destination is that entry's account and its amount is at least that entry's fee.
C3_FeeIsPaid ==
    \A i \in Slots :
        Returned(i) =>
            LET n == FirstTokenInstruction(inv[i].tx)
            IN  /\ n # 0
                /\ inv[i].tx.instructions[n].data.type \in {"Transfer", "TransferChecked"}
                /\ \E e \in DOMAIN AllowedTokens :
                      /\ AllowedTokens[e].mint = inv[i].account.mint
                      /\ DestinationOf(inv[i].tx.instructions[n]).pubkey = AllowedTokens[e].account
                      /\ inv[i].tx.instructions[n].data.amount >= AllowedTokens[e].fee

\* Both orchestrators have returned a signature, and the payment was of the fee
\* exactly.
C3_Witness ==
    \E i, j \in Slots :
        /\ inv[i].kind = "sign" /\ Returned(i)
        /\ inv[j].kind = "create" /\ Returned(j)
        /\ inv[j].transfer.amount = Fee

\* The transaction object carries the signature the custody key made.
CarriesCustodySignature(tx) ==
    \E k \in DOMAIN tx.signatures :
        tx.signatures[k] = Slot(FeePayerKey, SigBy(FeePayerKey))

Passed(i, stage) == stage \in SeqToSet(inv[i].stages)

\* C4, as the specification states it: no transaction carries the custody key's
\* signature while the invocation handling it has not yet passed, or has failed,
\* the instruction-security (or account-initialization) check, the transfer
\* validation, the per-source lockout or the simulation.
C4_SignedOnlyAfterAllChecks ==
    \A i \in Slots :
        CarriesCustodySignature(inv[i].tx) =>
            /\ Passed(i, "security") \/ Passed(i, "accountInit")
            /\ Passed(i, "transfer")
            /\ Passed(i, "lockout")
            /\ Passed(i, "simulation")

\* C4, amended: the transaction object is signed by validateTransaction, once the
\* envelope checks have passed and before the later checks run; the signature is
\* returned to the caller only by an invocation that has passed every stage.
C4_SignatureReturnedOnlyAfterAllChecks ==
    \A i \in Slots :
        /\ CarriesCustodySignature(inv[i].tx) =>
              (Passed(i, "envelope") \/ inv[i].error = "Signature verification failed")
        /\ Passed(i, "envelope") => CarriesCustodySignature(inv[i].tx)
        /\ Returned(i) <=> inv[i].stages \in {SignStages, CreateStages}

\* A transaction carries the custody signature although its invocation failed the
\* instruction-security check; nothing was returned for it.
C4_Witness ==
    \E i \in Slots :
        /\ CarriesCustodySignature(inv[i].tx)
        /\ inv[i].pc = "failed"
        /\ inv[i].error = "invalid account"

(***************************************************************************)
(* Replay guard and lockout guard.                                         *)
(***************************************************************************)
\* The invocation has been through the dedup check, whatever the outcome.
DedupDecided(v) ==
    v.pc \notin {"idle", "dedupSet"} /\ v.error # "Transaction compile error"

\* C5: of two sequential invocations of an orchestrator on the identical signing
\* payload against the same cache, the second fails with `duplicate
\* transaction`, whatever became of the first after its dedup check.
C5_SecondOfSamePayloadIsDuplicate ==
    \A n \in DOMAIN past :
        ( /\ past[n].hash = MessageHash(inv[1].tx)
          /\ past[n].error # "Transaction compile error"
          /\ DedupDecided(inv[1]) )
        => /\ inv[1].pc = "failed"
           /\ inv[1].error = "duplicate transaction"
           /\ inv[1].stages = <<>>

\* The first invocation failed after its dedup check, the second, on the same
\* payload, is refused as a duplicate.
C5_Witness ==
    /\ Len(past) = 1
    /\ past[1].hash = MessageHash(inv[1].tx)
    /\ past[1].stages = <<"dedup", "envelope", "security">>
    /\ past[1].error = "invalid destination"
    /\ inv[1].error = "duplicate transaction"

\* C6, as the specification states it: of two concurrent invocations carrying
\* the same message, exactly one proceeds past the dedup stage and the other
\* fails with `duplicate transaction`.
C6_ExactlyOnePassesDedup ==
    \A i, j \in Slots :
        ( /\ i # j
          /\ MessageHash(inv[i].tx) = MessageHash(inv[j].tx)
          /\ DedupDecided(inv[i])
          /\ DedupDecided(inv[j]) )
        => \/ Passed(i, "dedup") /\ inv[j].error = "duplicate transaction"
           \/ Passed(j, "dedup") /\ inv[i].error = "duplicate transaction"

\* The cooldown key of an invocation whose transfer has been validated.
LockoutKey(v) == LastSignatureKey(v.kind, v.transfer.source.pubkey)

\* C7: in a sequence of invocations, one that reaches the lockout stage less than
\* the cooldown after the time recorded for its source fails with `duplicate
\* transfer` and records nothing; one that reaches it with nothing recorded, or
\* once the cooldown has elapsed, passes and records the current time under
\* `transfer/lastSignature/<source>` (`createAccount/...` for account creation).
C7_CooldownStep ==
    [][ (inv[1].pc = "lockSet" /\ inv'[1].pc # "lockSet") =>
          LET key == LockoutKey(inv[1])
              recorded == CacheGet(cache, key)
          IN  IF recorded # 0 /\ now' - recorded < sameSourceTimeout
              THEN /\ inv'[1].pc = "failed"
                   /\ inv'[1].error = "duplicate transfer"
                   /\ cache' = cache
              ELSE /\ inv'[1].pc = "simulate"
                   /\ inv'[1].stages = Append(inv[1].stages, "lockout")
                   /\ CacheGet(cache', key) = now'
                   /\ \A k \in DOMAIN cache : k # key => cache'[k] = cache[k] ]_vars

\* Three signWithTokenFee invocations in a row, distinct messages, one source:
\* the first passed the lockout, the second was refused, the third passed it just
\* as the cooldown had elapsed.
C7_Witness ==
    /\ Len(past) = 2
    /\ inv[1].kind = "sign" /\ past[1].kind = "sign" /\ past[2].kind = "sign"
    /\ past[1].hash # past[2].hash
    /\ past[1].hash # MessageHash(inv[1].tx)
    /\ past[2].hash # MessageHash(inv[1].tx)
    /\ past[1].source = SourceKey /\ past[2].source = SourceKey
    /\ inv[1].transfer.source.pubkey = SourceKey
    /\ "lockout" \in SeqToSet(past[1].stages)
    /\ past[2].error = "duplicate transfer"
    /\ Passed(1, "lockout")
    /\ now = 1 + sameSourceTimeout
    /\ CacheGet(cache, LockoutKey(inv[1])) = now

\* C8, as the specification states it: of concurrent signWithTokenFee invocations
\* with distinct messages and the same source that reach the lockout stage within
\* one cooldown window (here: at one reading of the clock), at most one passes it.
C8_AtMostOnePassesLockout ==
    \A i, j \in Slots :
        ( /\ i # j
          /\ ticks = 0
          /\ inv[i].kind = "sign" /\ inv[j].kind = "sign"
          /\ MessageHash(inv[i].tx) # MessageHash(inv[j].tx)
          /\ Passed(i, "transfer") /\ Passed(j, "transfer")
          /\ inv[i].transfer.source.pubkey = inv[j].transfer.source.pubkey )
        => ~(Passed(i, "lockout") /\ Passed(j, "lockout"))

(***************************************************************************)
(* The validators on their own.                                            *)
(***************************************************************************)
\* The references that name the custody key as writable or as a signer.
PrivilegedCustodyReferences(tx) ==
    { ref \in References(tx) : CustodyReference(tx, ref) /\ Privileged(tx, ref) }

\* Instruction order: by instruction, then by position in its account list.
NotAfter(a, b) == a[1] < b[1] \/ (a[1] = b[1] /\ a[2] <= b[2])

OwnerOf(ix) ==
    IF ix.data.type = "Transfer" THEN ix.keys[3] ELSE ix.keys[4]

\* The checks that precede the fee check pass: there is a token instruction, it
\* is a Transfer or TransferChecked, the source account exists, belongs to the
\* instruction's owner, is not frozen and holds the amount, and its mint is that
\* of allow-list entry e.
PassesUpToFeeCheck(tx, account, e) ==
    LET n == FirstTokenInstruction(tx)
    IN  /\ n # 0
        /\ tx.instructions[n].data.type \in {"Transfer", "TransferChecked"}
        /\ account.found
        /\ account.owner = OwnerOf(tx.instructions[n]).pubkey
        /\ ~account.isFrozen
        /\ account.amount >= tx.instructions[n].data.amount
        /\ AllowedTokens[e].mint = account.mint
        /\ \A f \in DOMAIN AllowedTokens : AllowedTokens[f].mint = account.mint => e <= f

\* The checks that follow the fee check hold.
LaterRoleChecksHold(tx, e) ==
    LET ix == tx.instructions[FirstTokenInstruction(tx)]
    IN  /\ ~ix.keys[1].isSigner
        /\ DestinationOf(ix) = Meta(AllowedTokens[e].account, FALSE, TRUE)
        /\ Len(tx.signatures) >= 2
        /\ OwnerOf(ix) = Meta(tx.signatures[2].publicKey, TRUE, FALSE)
        /\ ix.data.type = "TransferChecked" =>
              /\ ix.data.decimals = AllowedTokens[e].decimals
              /\ ix.keys[2] = Meta(AllowedTokens[e].mint, FALSE, FALSE)

\* C10: for a transfer that passes the checks preceding the fee check, an amount
\* below the matched entry's fee makes validateTransfer fail with `invalid
\* amount`; an amount equal to the fee passes the fee check, and validation
\* succeeds, returning the instruction, when the later role checks hold.
C10_FeeBoundary ==
    vout.kind = "validateTransfer" =>
        \A e \in DOMAIN AllowedTokens :
            PassesUpToFeeCheck(vout.tx, vout.account, e) =>
                LET amount == vout.tx.instructions[FirstTokenInstruction(vout.tx)].data.amount
                IN  /\ amount < AllowedTokens[e].fee => vout.result.err = "invalid amount"
                    /\ amount >= AllowedTokens[e].fee => vout.result.err # "invalid amount"
                    /\ (amount = AllowedTokens[e].fee /\ LaterRoleChecksHold(vout.tx, e)) =>
                          /\ vout.result.err = ""
                          /\ vout.result.instruction.amount = amount

\* A TransferChecked of exactly the fee, after another program's instruction,
\* was validated.
C10_Witness ==
    /\ vout.kind = "validateTransfer"
    /\ vin.amount = Fee
    /\ vin.type = "TransferChecked"
    /\ vin.defects = {"leadingInstruction"}
    /\ PassesUpToFeeCheck(vout.tx, vout.account, 1)
    /\ LaterRoleChecksHold(vout.tx, 1)
    /\ vout.result.err = ""

(***************************************************************************)
(* validateTransaction called on its own, on a transaction whose fee payer *)
(* and blockhash are any and whose signature slots are added one at a      *)
(* time.                                                                   *)
(***************************************************************************)
MaxSlots == 3       \* signature slots of a generated transaction

\* A slot as a caller can fill it: any key or none, and no signature bytes, the
\* owner's signature, or bytes that verify for nobody.
GeneratedSlots ==
    { Slot(pk, sig) : pk \in {FeePayerKey, OwnerKey, OtherKey, NoKey},
                      sig \in {NoSig, SigBy(OwnerKey), BadSigBy(OwnerKey)} }

EnvelopeInit ==
    /\ cache = <<>>
    /\ now = 1
    /\ ticks = 0
    /\ inv = [i \in Slots |-> Idle]
    /\ calls = 0
    /\ past = <<>>
    /\ \E fp \in {FeePayerKey, OtherKey, NoKey}, bh \in {"B1", NoBlockhash},
          ixs \in {TxNamed.instructions, << SystemIx(FALSE, FALSE) >>} :
          vin = [kind |-> "validateTransaction", tx |-> Tx(fp, bh, <<>>, ixs)]
    /\ vout = NoValidator

AddSlot ==
    /\ vin.kind = "validateTransaction"
    /\ Len(vin.tx.signatures) < MaxSlots
    /\ \E slot \in GeneratedSlots :
          vin' = [vin EXCEPT !.tx.signatures = Append(@, slot)]
    /\ vout' = NoValidator
    /\ UNCHANGED <<cache, now, ticks, inv, calls, past>>

\* await validateTransaction(connection, transaction, feePayer, maxSignatures, ...)
RunValidateTransaction ==
    /\ vin.kind = "validateTransaction"
    /\ vout = NoValidator
    /\ vout' = [kind |-> "validateTransaction",
                result |-> validateTransaction(vin.tx, Config.maxSignatures)]
    /\ UNCHANGED <<cache, now, ticks, inv, calls, past, vin>>

EnvelopeNext == AddSlot \/ RunValidateTransaction

EnvelopeSpec == EnvelopeInit /\ [][EnvelopeNext]_vars

\* The envelope checks as the specification lists them: what each requires and
\* the error it names, in order.
EnvelopeChecks(tx, maxSignatures) ==
    << << tx.feePayer = FeePayerKey, "invalid fee payer" >>,
       << tx.recentBlockhash # NoBlockhash, "missing recent blockhash" >>,
       << Len(tx.signatures) >= 1, "no signatures" >>,
       << Len(tx.signatures) <= maxSignatures, "too many signatures" >>,
       << Len(tx.signatures) >= 1 => tx.signatures[1].publicKey = FeePayerKey,
          "invalid fee payer pubkey" >>,
       << Len(tx.signatures) >= 1 => ~HasSig(tx.signatures[1].signature),
          "invalid fee payer signature" >> >>
    \o [ n \in 1 .. 2 * (Len(tx.signatures) - 1) |->
           IF n % 2 = 1
           THEN << tx.signatures[(n + 1) \div 2 + 1].publicKey # NoKey, "missing public key" >>
           ELSE << HasSig(tx.signatures[n \div 2 + 1].signature), "missing signature" >> ]

\* The error of the first check that does not hold ("" when all hold).
FirstViolated(checks) ==
    IF \A n \in DOMAIN checks : checks[n][1] THEN ""
    ELSE checks[CHOOSE n \in DOMAIN checks :
                   ~checks[n][1] /\ \A m \in 1 .. n - 1 : checks[m][1]][2]

\* C11: validateTransaction fails with the error of the first violated check, in
\* the order fee payer, blockhash, at least one slot, slot count, slot 0 key, slot
\* 0 unsigned, then per remaining slot a public key and signature bytes; and
\* whenever a check fails the transaction is left without the custody signature.
C11_FirstViolatedEnvelopeCheck ==
    vout.kind = "validateTransaction" =>
        LET expected == FirstViolated(EnvelopeChecks(vin.tx, Config.maxSignatures))
        IN  expected # "" =>
               /\ vout.result.err = expected
               /\ vout.result.tx = vin.tx
               /\ ~CarriesCustodySignature(vout.result.tx)

\* The same, but a slot 0 without a public key ends in a TypeError (the key is
\* dereferenced before it is compared).
C11_FirstViolatedOrTypeError ==
    vout.kind = "validateTransaction" =>
        LET expected == FirstViolated(EnvelopeChecks(vin.tx, Config.maxSignatures))
        IN  expected # "" =>
               /\ vout.result.err =
                     IF expected = "invalid fee payer pubkey"
                        /\ vin.tx.signatures[1].publicKey = NoKey
                     THEN "TypeError" ELSE expected
               /\ vout.result.tx = vin.tx
               /\ ~CarriesCustodySignature(vout.result.tx)

DistinctSlotKeys(tx) ==
    \A k, l \in DOMAIN tx.signatures :
        tx.signatures[k].publicKey = tx.signatures[l].publicKey => k = l

StagesOf(kind) == IF kind = "create" THEN CreateStages ELSE SignStages

\* The errors each stage raises.
StageErrors(stage) ==
    CASE stage = "dedup" -> {"duplicate transaction", "Transaction compile error"}
      [] stage = "envelope" ->
            {"invalid fee payer", "missing recent blockhash", "no signatures",
             "too many signatures", "TypeError", "invalid fee payer pubkey",
             "invalid fee payer signature", "missing public key", "missing signature",
             "Transaction compile error", "Signature verification failed"}
      [] stage = "security" -> {"invalid account"}
      [] stage = "accountInit" ->
            {"transaction should contain 2 instructions: fee payment, account init",
             "account instruction should call associated token program",
             "TypeError", "account already exists",
             "unable to match associated account instruction",
             "duplicate account within same recent blockhash",
             "Transaction compile error", "Signature verification failed"}
      [] stage = "transfer" ->
            {"missing token instruction", "TokenInvalidInstructionTypeError",
             "TokenInvalidInstructionKeysError", "invalid instruction", "invalid token",
             "TokenAccountNotFoundError", "source invalid owner", "source frozen",
             "source insufficient balance", "invalid mint", "source is signer",
             "invalid amount", "invalid destination", "destination not writable",
             "destination is signer", "TypeError", "owner missing signature",
             "owner is writable",
             "owner not signer", "invalid decimals", "mint is writable", "mint is signer"}
      [] stage = "lockout" -> {"duplicate transfer"}
      [] stage = "simulation" -> {"Simulation error"}

\* What one step may do to invocation i.
StageStep(i) ==
    LET list == StagesOf(inv'[i].kind)
        before == Len(inv[i].stages)
        after == Len(inv'[i].stages)
    IN  /\ after <= Len(list)
        /\ inv'[i].stages = SubSeq(list, 1, after)
        /\ after # before => /\ after = before + 1
                             /\ inv[i].pc # "failed"
                             /\ inv'[i].pc # "failed"
        /\ inv[i].pc \in {"failed", "returned"} => inv'[i] = inv[i]
        /\ inv'[i].pc = "failed" =>
              /\ after < Len(list)
              /\ inv'[i].error \in StageErrors(list[after + 1])
        /\ inv'[i].pc # "failed" => inv'[i].error = ""
        /\ inv'[i].pc = "simulate" => after = 5
        /\ inv'[i].pc = "returned" => after = 6

\* C13: within one invocation the stages run in the listed order, each at most
\* once; a failing stage ends the invocation with an error of that stage and no
\* later stage runs; a cooldown key is written only by an invocation that passed
\* transfer validation and passes the lockout in that step, and the simulation is
\* requested only by an invocation that passed the lockout.
C13_StagesInOrderStep ==
    [][ /\ \A i \in Slots : StageStep(i)
        /\ \A k \in DOMAIN cache' :
              (k[1] \in {"transfer/lastSignature", "createAccount/lastSignature"}
               /\ CacheGet(cache, k) # cache'[k])
              => \E i \in Slots :
                    /\ inv[i].pc = "lockSet"
                    /\ inv[i].stages = SubSeq(StagesOf(inv[i].kind), 1, 4)
                    /\ k = LockoutKey(inv[i])
                    /\ inv'[i].stages = SubSeq(StagesOf(inv[i].kind), 1, 5) ]_vars

\* An invocation was refused at the lockout after four stages, with the cooldown
\* of its source recorded by another one that went on to the simulation.
C13_Witness ==
    \E i, j \in Slots :
        /\ inv[i].pc = "failed"
        /\ inv[i].error = "duplicate transfer"
        /\ inv[i].stages = SubSeq(SignStages, 1, 4)
        /\ inv[j].pc = "returned"
        /\ LockoutKey(inv[j]) = LockoutKey(inv[i])
        /\ LockoutKey(inv[i]) \in DOMAIN cache


(***************************************************************************)
(* What is written to the cache stays.                                     *)
(***************************************************************************)
IsCooldownKey(k) == k[1] \in {"transfer/lastSignature", "createAccount/lastSignature"}

\* C14: no step deletes or resets a cache key: every key keeps its value, but
\* for a cooldown key that a later cooldown write replaces by a newer time.
C14_CacheKeysStayStep ==
    [][ \A k \in DOMAIN cache :
          /\ k \in DOMAIN cache'
          /\ cache'[k] # cache[k] => IsCooldownKey(k) /\ cache'[k] > cache[k] ]_vars

\* An account-creation invocation ended in an error at the simulation, and the
\* dedup key, the account marker and the cooldown key it wrote are still there.
C14_Witness ==
    \E i \in Slots :
        /\ inv[i].kind = "create"
        /\ inv[i].pc = "failed"
        /\ inv[i].error = "Simulation error"
        /\ CacheGet(cache, TransactionKey(inv[i].tx)) = 1
        /\ CacheGet(cache, AccountKey(inv[i].tx)) = 1
        /\ CacheGet(cache, LockoutKey(inv[i])) # 0


(***************************************************************************)
(* Scenario B: the fee goes to another account.                            *)
(***************************************************************************)
\* The transaction with the destination of its fee payment replaced.
WithDestination(tx, key) ==
    LET n == FirstTokenInstruction(tx)
        at == IF tx.instructions[n].data.type = "Transfer" THEN 2 ELSE 3
    IN  [tx EXCEPT !.instructions[n].keys[at].pubkey = key]

\* The invocation's only defect is the destination of its fee payment: its source
\* account on the ledger matches an allow-list entry, the payment goes elsewhere,
\* and the same transaction paying that entry's account passes validateTransfer.
OnlyDestinationWrong(v) ==
    LET n == FirstTokenInstruction(v.tx)
        t == FindToken(AllowedTokens, 1, v.account.mint)
    IN  /\ n # 0
        /\ v.tx.instructions[n].data.type \in {"Transfer", "TransferChecked"}
        /\ v.account.found
        /\ t # 0
        /\ DestinationOf(v.tx.instructions[n]).pubkey # AllowedTokens[t].account
        /\ validateTransfer(WithDestination(v.tx, AllowedTokens[t].account), v.account,
                            AllowedTokens).err = ""

CooldownEntries(c) == { k \in DOMAIN c : IsCooldownKey(k) }

\* C15: an invocation that passed the stages before transfer validation and whose
\* only defect is the destination of the fee payment fails there with `invalid
\* destination`; no step of an invocation that is not at its lockout writes a
\* cooldown key, so none is written during that invocation.
C15_InvalidDestinationStep ==
    [][ \A i \in Slots :
          /\ (inv[i].pc = "validateTransfer" /\ inv'[i].pc # "validateTransfer"
                 /\ OnlyDestinationWrong(inv'[i]))
              => /\ inv'[i].pc = "failed"
                 /\ inv'[i].error = "invalid destination"
                 /\ cache' = cache
          /\ (inv'[i] # inv[i] /\ inv[i].pc # "lockSet")
              => /\ CooldownEntries(cache') = CooldownEntries(cache)
                 /\ \A k \in CooldownEntries(cache) : cache'[k] = cache[k] ]_vars

\* An account-creation request paying another account was refused with `invalid
\* destination`: its dedup key and account marker are in the cache, no cooldown
\* key is.
C15_Witness ==
    \E i \in Slots :
        /\ inv[i].kind = "create"
        /\ inv[i].pc = "failed"
        /\ inv[i].error = "invalid destination"
        /\ OnlyDestinationWrong(inv[i])
        /\ inv[i].stages = SubSeq(CreateStages, 1, 3)
        /\ TransactionKey(inv[i].tx) \in DOMAIN cache
        /\ CooldownEntries(cache) = {}


(***************************************************************************)
(* The account marker.                                                     *)
(***************************************************************************)
\* The structural checks, for a run that got the ledger's answer `exists`: two
\* instructions, the second one of the associated-account program, the account
\* absent, the instruction equal to the reference instruction.
StructuralChecksPass(tx, exists) ==
    LET transaction == TransactionFrom(Serialize(tx))
    IN  /\ Len(transaction.instructions) = 2
        /\ transaction.instructions[2].programId = ASSOCIATED_TOKEN_PROGRAM_ID
        /\ Len(transaction.instructions[2].keys) >= 4
        /\ ~exists
        /\ transaction.instructions[2] =
              createAssociatedTokenAccountInstruction(
                  FeePayerKey,
                  getAssociatedTokenAddress(transaction.instructions[2].keys[4].pubkey,
                                            transaction.instructions[2].keys[3].pubkey),
                  transaction.instructions[2].keys[3].pubkey,
                  transaction.instructions[2].keys[4].pubkey)

\* The run of invocation i got as far as asking the ledger, and the account exists.
AccountFoundOnLedger(v) ==
    LET transaction == TransactionFrom(Serialize(v.tx))
    IN  /\ Len(transaction.instructions) = 2
        /\ transaction.instructions[2].programId = ASSOCIATED_TOKEN_PROGRAM_ID
        /\ Len(transaction.instructions[2].keys) >= 4
        /\ v.exists

\* C16: an `account/<blockhash>_<associatedAccount>` key is written only by a run
\* whose structural checks all passed and whose lookup found the key not marked,
\* and it is set to true; a run that finds the associated account on the ledger
\* fails with `account already exists` and writes nothing.
C16_MarkerOnlyAfterChecksStep ==
    [][ /\ \A k \in DOMAIN cache' :
              (k[1] = "account" /\ (k \notin DOMAIN cache \/ cache[k] # cache'[k]))
              => \E i \in Slots :
                    /\ inv[i].pc = "accountInitMark"
                    /\ inv'[i].pc = "validateTransfer"
                    /\ k = AccountKey(inv[i].tx)
                    /\ StructuralChecksPass(inv[i].tx, inv[i].exists)
                    /\ ~Truthy(inv[i].seen)
                    /\ cache'[k] = 1
        /\ \A i \in Slots :
              (inv[i].pc = "validateAccountInit" /\ inv'[i].pc # "validateAccountInit"
                 /\ AccountFoundOnLedger(inv'[i]))
              => /\ inv'[i].pc = "failed"
                 /\ inv'[i].error = "account already exists"
                 /\ cache' = cache ]_vars

\* Of two runs for the same account, one found it absent and marked it, the other
\* found it on the ledger and failed with `account already exists`.
C16_Witness ==
    \E i, j \in Slots :
        /\ inv[i].pc = "validateTransfer"
        /\ ~inv[i].exists
        /\ CacheGet(cache, AccountKey(inv[i].tx)) = 1
        /\ inv[j].pc = "failed"
        /\ inv[j].exists
        /\ inv[j].error = "account already exists"


(***************************************************************************)
(* The simulation.                                                         *)
(***************************************************************************)
\* The invocation has had the ledger's answer to its dry run.
Simulated(i) == inv[i].simulated # NoSimulation

\* C17: simulateRawTransaction fails with `Simulation error` exactly when the
\* dry run reports an execution error, and otherwise returns what the dry run
\* reported; an invocation whose dry run reported an error ends with `Simulation
\* error`, and one that returns a signature had a dry run without error.
C17_SimulationErrorIffReported ==
    \A i \in Slots :
        /\ Simulated(i) =>
              /\ \A simulated \in SimulationResults :
                    LET r == simulateRawTransaction(inv[i].rawTransaction, simulated)
                    IN  /\ r.err = "Simulation error" <=> simulated.err # ""
                        /\ simulated.err = "" => r.err = "" /\ r.value = simulated
              /\ inv[i].simulated.err # "" =>
                    inv[i].pc = "failed" /\ inv[i].error = "Simulation error"
              /\ inv[i].simulated.err = "" => Returned(i)
        /\ Returned(i) => Simulated(i) /\ inv[i].simulated.err = ""

\* One invocation's dry run reported an error and it ended with `Simulation
\* error`; another's reported none and it returned its signature.
C17_Witness ==
    \E i, j \in Slots :
        /\ inv[i].simulated.err = "InstructionError"
        /\ inv[i].error = "Simulation error"
        /\ inv[i].signature # NoSignature
        /\ Returned(j)
        /\ inv[j].simulated \in SimulationResults


(***************************************************************************)
(* Scenario A: the well-formed fee payment.                                *)
(***************************************************************************)
\* The transaction of the scenario, as the client hands it in.
ScenarioA(tx) ==
    LET token == { n \in DOMAIN tx.instructions :
                     tx.instructions[n].programId = TOKEN_PROGRAM_ID }
    IN  /\ tx.feePayer = FeePayerKey
        /\ tx.recentBlockhash # NoBlockhash
        /\ Len(tx.signatures) = 2
        /\ tx.signatures[1].publicKey = FeePayerKey
        /\ Cardinality(token) = 1
        /\ PrivilegedCustodyReferences(tx) = {}
        /\ \A n \in token :
              LET ix == tx.instructions[n]
              IN  /\ ix.data.type = "TransferChecked"
                  /\ Len(ix.keys) = 4
                  /\ ix.data.amount = AllowedTokens[1].fee
                  /\ ix.data.decimals = AllowedTokens[1].decimals
                  /\ ix.keys[2] = Meta(AllowedTokens[1].mint, FALSE, FALSE)
                  /\ ix.keys[3] = Meta(AllowedTokens[1].account, FALSE, TRUE)
                  /\ ~ix.keys[1].isSigner
                  /\ ix.keys[4].isSigner /\ ~ix.keys[4].isWritable
                  /\ tx.signatures[2] = Slot(ix.keys[4].pubkey, SigBy(ix.keys[4].pubkey))

\* The source account of the scenario on the ledger: owned by the owner, not
\* frozen, of the allow-listed mint, holding the fee.
ScenarioALedger(tx, account) ==
    /\ account.found
    /\ account.owner = tx.signatures[2].publicKey
    /\ ~account.isFrozen
    /\ account.mint = AllowedTokens[1].mint
    /\ account.amount >= AllowedTokens[1].fee

\* C18: a sequential signWithTokenFee invocation on a scenario-A transaction ends
\* in an error only when a condition of the scenario did not hold: the cache held
\* its dedup key, the ledger's source account was not as required, the cache held
\* a cooldown entry for the source within the window, or the simulation reported
\* an error.  Otherwise it returns a signature.
C18_ScenarioASucceeds ==
    (inv[1].kind = "sign" /\ ScenarioA(inv[1].tx)) =>
        /\ inv[1].pc = "failed" =>
              \/ /\ inv[1].stages = <<>>
                 /\ inv[1].error = "duplicate transaction"
                 /\ Truthy(inv[1].seen)
              \/ /\ inv[1].stages = SubSeq(SignStages, 1, 3)
                 /\ ~ScenarioALedger(inv[1].tx, inv[1].account)
              \/ /\ inv[1].stages = SubSeq(SignStages, 1, 4)
                 /\ inv[1].error = "duplicate transfer"
                 /\ inv[1].seen # 0
                 /\ now - inv[1].seen < sameSourceTimeout
              \/ /\ inv[1].stages = SubSeq(SignStages, 1, 5)
                 /\ inv[1].simulated.err # ""
        /\ Returned(1) => inv[1].signature # NoSignature /\ inv[1].error = ""

\* A scenario-A transaction was signed and its signature returned, the cache
\* holding a cooldown entry of its source that was no longer within the window.
C18_Witness ==
    /\ inv[1].kind = "sign"
    /\ ScenarioA(inv[1].tx)
    /\ Returned(1)
    /\ inv[1].signature = Base58(SigBy(FeePayerKey))
    /\ inv[1].seen # 0
    /\ ScenarioALedger(inv[1].tx, inv[1].account)


(***************************************************************************)
(* A transaction without a token instruction.                              *)
(***************************************************************************)
\* Answers the ledger can give for a source account.
LedgerAnswers ==
    {AccountNotFound} \cup
    { Account(o, f, a, m) : o \in {OwnerKey, OtherKey}, f \in BOOLEAN,
                            a \in {0, MaxAmount}, m \in {MintKey, OtherMintKey} }

\* C19: on a transaction with no token-program instruction validateTransfer
\* fails with `missing token instruction`, whatever the ledger holds: the
\* outcome is the same for every answer the ledger could give.
C19_MissingTokenInstruction ==
    (vout.kind = "validateTransfer" /\ FirstTokenInstruction(vout.tx) = 0) =>
        /\ vout.result.err = "missing token instruction"
        /\ \A account \in LedgerAnswers :
              validateTransfer(vout.tx, account, AllowedTokens) = vout.result

\* validateTransfer ran on a transaction whose only instruction is of another
\* program, with no source account on the ledger.
C19_Witness ==
    /\ vout.kind = "validateTransfer"
    /\ {"noTokenInstruction", "accountMissing"} \subseteq vin.defects
    /\ Len(vout.tx.instructions) = 1
    /\ vout.result.err = "missing token instruction"


(***************************************************************************)
(* Broadcasting.                                                           *)
(***************************************************************************)
BroadcastsOf(i) == { b \in vout.broadcasts : b.slot = i }

\* C20: no step of an orchestrator broadcasts; a transaction is broadcast only
\* by the handler's own step, for a request whose signWithTokenFee has returned
\* a signature, and it is that request's transaction carrying that signature; a
\* request whose signWithTokenFee failed is answered with status 400 and is never
\* broadcast; with signature return configured nothing is ever broadcast.
C20_BroadcastOnlyAfterSignatureStep ==
    [][ /\ inv' # inv => vout'.broadcasts = vout.broadcasts
        /\ \A b \in vout'.broadcasts :
              /\ inv'[b.slot].pc = "returned"
              /\ b.transaction = inv'[b.slot].rawTransaction
              /\ Base58(b.transaction.signatures[1].signature) = inv'[b.slot].signature
              /\ ~vin.returnSignature
        /\ \A i \in Slots :
              (inv'[i].pc = "failed" /\ vout'.status[i] # NoResponse)
              => vout'.status[i] = 400 /\ ~\E b \in vout'.broadcasts : b.slot = i
        /\ \A i \in Slots :
              vout'.status[i] # NoResponse => inv'[i].pc \in {"returned", "failed"}
        /\ vin.returnSignature => vout'.broadcasts = {} ]_vars

\* Without signature return configured: one request was signed, broadcast and
\* answered with 200, another failed and was answered with 400.
C20_Witness ==
    \E i, j \in Slots :
        /\ Returned(i)
        /\ vout.kind = "api"
        /\ vout.status[i] = 200
        /\ BroadcastsOf(i) # {}
        /\ inv[j].pc = "failed"
        /\ vout.status[j] = 400
        /\ BroadcastsOf(j) = {}


(***************************************************************************)
(* The order of validateTransfer's checks.                                 *)
(***************************************************************************)
\* The allow-list entry of a mint: the first one with it, 0 for none.
EntryOf(mint) ==
    LET with == { e \in DOMAIN AllowedTokens : AllowedTokens[e].mint = mint }
    IN  IF with = {} THEN 0 ELSE CHOOSE e \in with : \A f \in with : e <= f

\* The checks in the order claimed, each with whether it holds and its error.
\* A check that needs the token instruction, the source account or the matched
\* entry holds vacuously when there is none.
TransferChecks(tx, account) ==
    LET n == FirstTokenInstruction(tx)
        ix == tx.instructions[n]
        transfer == n # 0 /\ ix.data.type \in {"Transfer", "TransferChecked"}
        fetched == transfer /\ account.found
        e == EntryOf(account.mint)
        matched == fetched /\ e # 0
        checked == matched /\ ix.data.type = "TransferChecked"
    IN  << << n # 0, "missing token instruction" >>,
           << n # 0 => transfer, "invalid instruction" >>,
           << fetched => account.owner = OwnerOf(ix).pubkey, "source invalid owner" >>,
           << fetched => ~account.isFrozen, "source frozen" >>,
           << fetched => account.amount >= ix.data.amount, "source insufficient balance" >>,
           << fetched => e # 0, "invalid token" >>,
           << matched => ix.data.amount >= AllowedTokens[e].fee, "invalid amount" >>,
           << matched => ~ix.keys[1].isSigner, "source is signer" >>,
           << matched => DestinationOf(ix).pubkey = AllowedTokens[e].account,
              "invalid destination" >>,
           << matched => DestinationOf(ix).isWritable, "destination not writable" >>,
           << matched => ~DestinationOf(ix).isSigner, "destination is signer" >>,
           << matched => /\ Len(tx.signatures) >= 2
                         /\ OwnerOf(ix).pubkey = tx.signatures[2].publicKey,
              "owner missing signature" >>,
           << matched => ~OwnerOf(ix).isWritable, "owner is writable" >>,
           << matched => OwnerOf(ix).isSigner, "owner not signer" >>,
           << checked => ix.data.decimals = AllowedTokens[e].decimals, "invalid decimals" >>,
           << checked => ix.keys[2].pubkey = AllowedTokens[e].mint, "invalid mint" >>,
           << checked => ~ix.keys[2].isWritable, "mint is writable" >>,
           << checked => ~ix.keys[2].isSigner, "mint is signer" >> >>

\* The instruction decodes and the ledger has the source account, so that every
\* check of the list can be made.
ChecksApply(tx, account) ==
    LET n == FirstTokenInstruction(tx)
    IN  n # 0 =>
           /\ decodeInstruction(tx.instructions[n]).err = ""
           /\ tx.instructions[n].data.type \in {"Transfer", "TransferChecked"} => account.found

C21_EarliestViolatedOrTypeError ==
    (vout.kind = "validateTransfer" /\ ChecksApply(vout.tx, vout.account)) =>
        LET n == FirstTokenInstruction(vout.tx)
            expected == FirstViolated(TransferChecks(vout.tx, vout.account))
        IN  IF expected = "owner missing signature" /\ Len(vout.tx.signatures) < 2
            THEN vout.result.err = "TypeError"
            ELSE /\ vout.result.err = expected
                 /\ expected = "" =>
                       vout.result.instruction =
                          decodeInstruction(vout.tx.instructions[n]).instruction
                 /\ expected # "" => vout.result.instruction = NoInstruction

(***************************************************************************)
(* The owner and the second signature slot.                                *)
(***************************************************************************)
\* The checks up to and including those on the destination hold.
PassesUpToDestinationChecks(tx, account) ==
    LET n == FirstTokenInstruction(tx)
    IN  /\ n # 0
        /\ tx.instructions[n].data.type \in {"Transfer", "TransferChecked"}
        /\ account.found
        /\ EntryOf(account.mint) # 0
        /\ \A c \in 1 .. 11 : TransferChecks(tx, account)[c][1]

C22_OwnerMissingSignatureTwoSlots ==
    (vout.kind = "validateTransfer" /\ PassesUpToDestinationChecks(vout.tx, vout.account)
       /\ Len(vout.tx.signatures) >= 2
       /\ ~TransferChecks(vout.tx, vout.account)[12][1])
    => vout.result.err = "owner missing signature"


(***************************************************************************)
(* The checks of the checked variant.                                      *)
(***************************************************************************)
CheckedErrors == {"invalid decimals", "invalid mint", "mint is writable", "mint is signer"}

\* The checks common to both variants hold.
CommonChecksPass(tx, account) ==
    /\ PassesUpToDestinationChecks(tx, account)
    /\ \A c \in 12 .. 14 : TransferChecks(tx, account)[c][1]

ReferenceFor(instruction) ==
    createAssociatedTokenAccountInstruction(
        FeePayerKey,
        getAssociatedTokenAddress(instruction.keys[4].pubkey, instruction.keys[3].pubkey),
        instruction.keys[3].pubkey, instruction.keys[4].pubkey)

\* The checks in the order claimed for a run v, each with whether it holds and
\* its error: v.exists is the ledger's answer, v.seen what the cache returned.
AccountChecks(v) ==
    LET transaction == TransactionFrom(Serialize(v.tx))
        two == Len(transaction.instructions) = 2
        instruction == transaction.instructions[2]
        derivable == two /\ Len(instruction.keys) >= 4
    IN  << << two, "transaction should contain 2 instructions: fee payment, account init" >>,
           << two => instruction.programId = ASSOCIATED_TOKEN_PROGRAM_ID,
              "account instruction should call associated token program" >>,
           << derivable => ~v.exists, "account already exists" >>,
           << two => /\ derivable
                     /\ instruction.programId = ReferenceFor(instruction).programId
                     /\ instruction.keys = ReferenceFor(instruction).keys
                     /\ instruction.data = ReferenceFor(instruction).data,
              "unable to match associated account instruction" >>,
           << ~Truthy(v.seen), "duplicate account within same recent blockhash" >> >>

\* The run of invocation i has ended, in an error or by marking the account.
AccountRunEnded(i) == inv[i].pc \in {"failed", "validateTransfer"}

\* C24: a run of validateAccountInitializationInstructions fails with the error
\* of the first violated check in the order instruction count, program of the
\* second instruction, account absent on the ledger, second instruction equal to
\* the reference in program id, account list and data, marker absent from the
\* cache; it passes only when none is violated.
C24_FirstViolatedAccountCheck ==
    \A i \in Slots :
        AccountRunEnded(i) => inv[i].error = FirstViolated(AccountChecks(inv[i]))

\* The same, but a second instruction of the associated-account program with
\* fewer than four accounts ends in a TypeError.
C24_FirstViolatedOrTypeError ==
    \A i \in Slots :
        AccountRunEnded(i) =>
            LET transaction == TransactionFrom(Serialize(inv[i].tx))
                expected == FirstViolated(AccountChecks(inv[i]))
            IN  IF /\ expected \in {"account already exists",
                                     "unable to match associated account instruction"}
                   /\ Len(transaction.instructions[2].keys) < 4
                THEN inv[i].error = "TypeError"
                ELSE inv[i].error = expected


(***************************************************************************)
(* The account marker across runs.                                         *)
(***************************************************************************)
\* Run j has passed, for the blockhash and the associated account of run i.
PassedForSameAccount(j, i) ==
    /\ j # i
    /\ inv[j].pc = "validateTransfer"
    /\ inv[j].tx.recentBlockhash = inv[i].tx.recentBlockhash
    /\ AssociatedTokenOf(inv[j].tx) = AssociatedTokenOf(inv[i].tx)

\* C25: a run that reaches the cache check finds the marker exactly when another
\* run has passed for the same blockhash and the same associated account (a run
\* that passed for another blockhash or another account leaves it unaffected);
\* a run that found the marker fails with `duplicate account within same recent
\* blockhash`, and one that did not passes.
C25_MarkerRejectsLaterRunStep ==
    [][ \A i \in Slots :
          /\ (inv[i].pc = "validateAccountInit" /\ inv'[i].pc = "accountInitMark")
              => (Truthy(inv'[i].seen) <=> \E j \in Slots : PassedForSameAccount(j, i))
          /\ (inv[i].pc = "accountInitMark" /\ inv'[i].pc # "accountInitMark")
              => IF Truthy(inv[i].seen)
                 THEN /\ inv'[i].pc = "failed"
                      /\ inv'[i].error = "duplicate account within same recent blockhash"
                 ELSE inv'[i].pc = "validateTransfer" ]_vars

\* A run passed; a later one with another message for the same blockhash and
\* account was refused.
C25_Witness ==
    \E i, j \in Slots :
        /\ PassedForSameAccount(j, i)
        /\ MessageHash(inv[i].tx) # MessageHash(inv[j].tx)
        /\ inv[i].pc = "failed"
        /\ inv[i].error = "duplicate account within same recent blockhash"
        /\ inv[i].seen = 1


(***************************************************************************)
(* Termination.                                                            *)
(***************************************************************************)
\* How far an invocation has come.
Position(pc) ==
    CASE pc = "idle" -> 0
      [] pc = "dedupSet" -> 1
      [] pc = "validateTransaction" -> 2
      [] pc \in {"validateInstructions", "validateAccountInit"} -> 3
      [] pc = "accountInitMark" -> 4
      [] pc = "validateTransfer" -> 5
      [] pc = "lockSet" -> 6
      [] pc = "simulate" -> 7
      [] pc \in {"returned", "failed"} -> 8

\* C26: when every awaited cache and ledger call returns, an invocation of
\* either orchestrator ends, with a signature or with an error; and every step
\* of an invocation takes it further, so that no stage is run a second time.
C26_InvocationsTerminate ==
    /\ <>[](\A i \in Slots : ~Running(i))
    /\ [][ \A i \in Slots :
              inv'[i] # inv[i] => Position(inv'[i].pc) > Position(inv[i].pc) ]_vars

\* Every invocation has ended: an account creation with a signature and every
\* stage run once, a fee payment with an error.
C26_Witness ==
    /\ \A i \in Slots : inv[i].pc \in {"returned", "failed"}
    /\ \E i, j \in Slots :
          /\ inv[i].kind = "create" /\ Returned(i) /\ inv[i].signature # NoSignature
          /\ inv[i].stages = <<"dedup", "envelope", "accountInit", "transfer", "lockout",
                               "simulation">>
          /\ inv[j].kind = "sign" /\ inv[j].pc = "failed"


(***************************************************************************)
(* Failures of the cache and the ledger.                                    *)
(***************************************************************************)
\* The named conditions of the error taxonomy.
Taxonomy ==
    {"missing token instruction", "invalid instruction", "source invalid owner",
     "source frozen", "source insufficient balance", "invalid token", "invalid amount",
     "source is signer", "invalid destination", "destination not writable",
     "destination is signer", "owner missing signature", "owner is writable",
     "owner not signer", "invalid decimals", "invalid mint", "mint is writable",
     "mint is signer", "invalid fee payer", "missing recent blockhash", "no signatures",
     "too many signatures", "invalid fee payer pubkey", "invalid fee payer signature",
     "missing public key", "missing signature", "invalid account",
     "transaction should contain 2 instructions: fee payment, account init",
     "account instruction should call associated token program", "account already exists",
     "unable to match associated account instruction",
     "duplicate account within same recent blockhash", "duplicate transaction",
     "duplicate transfer", "Simulation error"}

\* The failures the cache and the ledger report.
ExternalFailures == {NetworkFault, "TokenAccountNotFoundError"}

\* The source account is fetched: the token instruction was found and decoded.
SourceFetched(v) ==
    v.error \notin {"missing token instruction", "invalid instruction",
                    "TokenInvalidInstructionTypeError", "TokenInvalidInstructionKeysError"}

\* C27: a rejected cache or ledger call, or a source account the ledger does not
\* find, ends the invocation in that step with the failure as it was reported,
\* which is no condition of the taxonomy; the step passes no stage, writes
\* nothing to the cache and asks for no simulation, the invocation returns no
\* signature and takes no further step.
C27_ExternalFailureEndsInvocationStep ==
    [][ \A i \in Slots :
          /\ (inv[i].pc = "validateTransfer" /\ inv'[i] # inv[i]
               /\ inv'[i].account = AccountNotFound /\ SourceFetched(inv'[i])
               /\ inv'[i].error # NetworkFault)
              => inv'[i].error = "TokenAccountNotFoundError"
          /\ (inv'[i].error \in ExternalFailures /\ inv[i].error \notin ExternalFailures)
              => /\ inv'[i].error \notin Taxonomy
                 /\ inv'[i].pc = "failed"
                 /\ inv'[i].stages = inv[i].stages
                 /\ inv'[i].simulated = inv[i].simulated
                 /\ cache' = cache
          /\ inv[i].error \in ExternalFailures
              => /\ inv'[i] = inv[i]
                 /\ inv[i].pc = "failed"
                 /\ "simulation" \notin SeqToSet(inv[i].stages) ]_vars

\* The ledger did not find the source account of one invocation, whose fetch
\* came after three passed stages, and a call of another one was rejected.
C27_Witness ==
    \E i, j \in Slots :
        /\ inv[i].pc = "failed" /\ inv[i].error = "TokenAccountNotFoundError"
        /\ Len(inv[i].stages) = 3
        /\ inv[i].simulated = NoSimulation
        /\ inv[j].pc = "failed" /\ inv[j].error = NetworkFault
        /\ Len(inv[j].stages) = 4

(***************************************************************************)
(* The custody key in an account creation.                                  *)
(***************************************************************************)
\* The places (instruction, position) where a transaction names the key.
ReferencesTo(tx, key) ==
    { <<n, k>> \in (DOMAIN tx.instructions) \X (1 .. 8) :
        /\ k \in DOMAIN tx.instructions[n].keys
        /\ tx.instructions[n].keys[k].pubkey = key }

\* C28: a transaction for which the account creation returns a signature names
\* the custody key as writable or signer only as the payer of its second
\* instruction, and nowhere in the account list of its first instruction, the
\* fee transfer, references after source, destination and owner included.
C28_CustodyOnlyCreationPayer ==
    \A i \in Slots :
        (inv[i].kind = "create" /\ Returned(i)) =>
            \A p \in ReferencesTo(inv[i].tx, FeePayerKey) :
                /\ p[1] # 1
                /\ (inv[i].tx.instructions[p[1]].keys[p[2]].isWritable
                    \/ inv[i].tx.instructions[p[1]].keys[p[2]].isSigner) => p = <<2, 1>>

\* The same for the references the validators look at: the custody key is not
\* the source, the destination or the owner of the fee transfer, and the second
\* instruction names it as the payer only.
C28_CustodyInNoCheckedRole ==
    \A i \in Slots :
        (inv[i].kind = "create" /\ Returned(i)) =>
            /\ FeePayerKey \notin {inv[i].transfer.source.pubkey,
                                   inv[i].transfer.destination.pubkey,
                                   inv[i].transfer.owner.pubkey}
            /\ \A p \in ReferencesTo(inv[i].tx, FeePayerKey) : p[1] = 2 => p[2] = 1

(***************************************************************************)
(* Refused attempts and the cooldown.                                       *)
(***************************************************************************)
\* C29: an invocation of either orchestrator that the lockout refuses with
\* `duplicate transfer` leaves every stored cooldown timestamp as it is; a
\* cooldown timestamp changes only in the step in which an invocation passes the
\* lockout, to the time of that step, so that the window runs from the last
\* invocation that passed.
C29_RefusedLeavesCooldownStep ==
    [][ /\ \A i \in Slots :
              (inv'[i].error = "duplicate transfer" /\ inv[i].error # "duplicate transfer")
              => /\ inv[i].pc = "lockSet" /\ inv'[i].pc = "failed"
                 /\ \A k \in CooldownEntries(cache) \cup CooldownEntries(cache') :
                        CacheGet(cache', k) = CacheGet(cache, k)
        /\ \A k \in CooldownEntries(cache') :
              CacheGet(cache', k) # CacheGet(cache, k)
              => /\ cache'[k] = now'
                 /\ \E i \in Slots :
                       /\ k = LockoutKey(inv[i])
                       /\ inv[i].pc = "lockSet" /\ inv'[i].pc = "simulate" ]_vars

\* A fee payment passed the lockout, the next one from the same source was
\* refused, and a third one, made once the window of the first had gone by,
\* passed in its turn.
C29_Witness ==
    /\ Len(past) = 2
    /\ past[1].kind = "sign" /\ "lockout" \in SeqToSet(past[1].stages)
    /\ past[2].kind = "sign" /\ past[2].error = "duplicate transfer"
    /\ past[2].source = past[1].source
    /\ inv[1].kind = "sign" /\ inv[1].pc = "simulate"
    /\ inv[1].transfer.source.pubkey = past[1].source
    /\ CacheGet(cache, LockoutKey(inv[1])) = now

(***************************************************************************)
(* The two orchestrators and the cache.                                     *)
(***************************************************************************)
\* The earlier invocations that passed the given stage.
PastPassing(stage) == { j \in DOMAIN past : stage \in SeqToSet(past[j].stages) }

\* The cooldown the other orchestrator keeps for the source of an invocation.
OtherCooldown(v) ==
    CacheGet(cache, LastSignatureKey(IF v.kind = "sign" THEN "create" ELSE "sign",
                                     v.transfer.source.pubkey))

\* C30: the cooldowns of the two orchestrators are independent and the dedup is
\* shared: an invocation refused with `duplicate transfer` follows one of the
\* same orchestrator that passed the lockout for the same source, a cooldown of
\* the other orchestrator playing no part; and an invocation whose message has
\* passed the dedup of an earlier invocation, of either orchestrator, fails with
\* `duplicate transaction`.
C30_CooldownsApartDedupShared ==
    /\ inv[1].error = "duplicate transfer"
        => \E j \in PastPassing("lockout") :
              /\ past[j].kind = inv[1].kind
              /\ past[j].source = inv[1].transfer.source.pubkey
    /\ (inv[1].pc \notin {"idle", "dedupSet"}
         /\ \E j \in PastPassing("dedup") : past[j].hash = MessageHash(inv[1].tx))
        => inv[1].pc = "failed" /\ inv[1].error = "duplicate transaction"

\* An account creation has passed the lockout while the cooldown that a fee
\* payment recorded for the same source was running, and before that an
\* account creation with the message of that fee payment was refused as a
\* duplicate transaction.
C30_Witness ==
    /\ inv[1].kind = "create" /\ inv[1].pc = "simulate"
    /\ OtherCooldown(inv[1]) # 0 /\ now - OtherCooldown(inv[1]) < sameSourceTimeout
    /\ \E j, k \in DOMAIN past :
          /\ j < k
          /\ past[j].kind = "sign" /\ past[k].kind = "create"
          /\ past[j].hash = past[k].hash
          /\ past[k].error = "duplicate transaction"

(***************************************************************************)
(* The cooldown of an invocation whose simulation failed.                   *)
(***************************************************************************)
\* The earlier invocations of the same orchestrator and source as v that ended
\* with the given error.
PastLike(v, error) ==
    { j \in DOMAIN past : /\ past[j].kind = v.kind
                          /\ past[j].source = v.transfer.source.pubkey
                          /\ past[j].error = error }

\* C31: the cooldown is recorded before the simulation: the step in which an
\* invocation fails with `Simulation error` leaves the cooldown entry of its
\* source set, and an invocation that comes to the lockout after one of the
\* same source failed so finds that entry and is refused with `duplicate
\* transfer` when less than the cooldown has gone by since it was recorded.
C31_FailedSimulationKeepsCooldownStep ==
    [][ /\ (inv[1].pc = "simulate" /\ inv'[1].error = "Simulation error")
            => /\ CacheGet(cache', LockoutKey(inv[1])) # 0
               /\ cache' = cache
        /\ (inv[1].pc = "lockSet" /\ inv'[1].pc # "lockSet"
             /\ PastLike(inv[1], "Simulation error") # {})
            => /\ CacheGet(cache, LockoutKey(inv[1])) # 0
               /\ now' - CacheGet(cache, LockoutKey(inv[1])) < sameSourceTimeout
                  => /\ inv'[1].pc = "failed"
                     /\ inv'[1].error = "duplicate transfer" ]_vars

\* A fee payment was refused with `duplicate transfer` after another message
\* from its source had failed in the simulation, no signature having been
\* returned for that source.
C31_Witness ==
    /\ inv[1].pc = "failed" /\ inv[1].error = "duplicate transfer"
    /\ \E j \in PastLike(inv[1], "Simulation error") : past[j].hash # MessageHash(inv[1].tx)
    /\ \A j \in DOMAIN past :
          past[j].source = inv[1].transfer.source.pubkey => past[j].error # ""

(***************************************************************************)
(* The account marker of an invocation that failed later on.                *)
(***************************************************************************)
\* The marker of an earlier invocation, from the message it was called with.
MarkerOf(hash) ==
    <<"account", hash.sha256.recentBlockhash,
      getAssociatedTokenAddress(hash.sha256.instructions[2].accounts[4],
                                hash.sha256.instructions[2].accounts[3])>>

\* The earlier invocations that passed the account-initialization validation
\* for the blockhash and the associated account of v.
PastMarked(v) ==
    { j \in DOMAIN past : /\ "accountInit" \in SeqToSet(past[j].stages)
                          /\ MarkerOf(past[j].hash) = AccountKey(v.tx) }

\* C32: the marker is set before the transfer is validated and stays set
\* however the invocation ends; an account creation for the blockhash and the
\* associated account of an earlier one that passed the account-initialization
\* validation does not pass it: unless the ledger already has the account, it
\* fails with `duplicate account within same recent blockhash`.
C32_MarkerOutlivesFailure ==
    /\ \A j \in DOMAIN past :
          "accountInit" \in SeqToSet(past[j].stages) => CacheGet(cache, MarkerOf(past[j].hash)) # 0
    /\ (/\ inv[1].kind = "create" /\ Len(inv[1].stages) >= 2
         /\ inv[1].pc \notin {"validateAccountInit", "accountInitMark"}
         /\ PastMarked(inv[1]) # {})
        => /\ inv[1].pc = "failed"
           /\ inv[1].stages = <<"dedup", "envelope">>
           /\ inv[1].error = IF inv[1].exists THEN "account already exists"
                              ELSE "duplicate account within same recent blockhash"

\* An account creation failed with the duplicate-account error after another
\* message for its blockhash and account had failed in the simulation, no
\* account creation having returned a signature.
C32_Witness ==
    /\ inv[1].pc = "failed"
    /\ inv[1].error = "duplicate account within same recent blockhash"
    /\ \E j \in PastMarked(inv[1]) :
          /\ past[j].hash # MessageHash(inv[1].tx)
          /\ past[j].error = "Simulation error"
    /\ \A j \in DOMAIN past : past[j].error # ""

(***************************************************************************)
(* The cooldown duration.                                                   *)
(***************************************************************************)
\* The duration the claim gives for the argument of the call.
ClaimedDuration == IF vin.sameSourceTimeout.given THEN vin.sameSourceTimeout.ms ELSE 5000

\* C33: the lockout refuses, with `duplicate transfer`, exactly when a timestamp
\* is stored for the source and less than the cooldown duration has gone by
\* since: at the duration itself the invocation passes.  The duration is 5000
\* when the caller passes none, and with a duration of 0 nothing is refused.
C33_LockoutBoundaryStep ==
    [][ (inv[1].pc = "lockSet" /\ inv'[1].pc # "lockSet") =>
          LET stored == CacheGet(cache, LockoutKey(inv[1]))
          IN  /\ (inv'[1].pc = "failed" /\ inv'[1].error = "duplicate transfer")
                  <=> (stored # 0 /\ now' - stored < ClaimedDuration)
              /\ inv'[1].pc # "failed" => /\ inv'[1].pc = "simulate"
                                          /\ "lockout" \in SeqToSet(inv'[1].stages)
              /\ (stored # 0 /\ now' - stored = ClaimedDuration) => inv'[1].pc = "simulate"
              /\ (stored # 0 /\ now' - stored = ClaimedDuration - 1 /\ ClaimedDuration > 0)
                  => inv'[1].pc = "failed"
              /\ ClaimedDuration = 0 => inv'[1].pc = "simulate" ]_vars

\* A fee payment passed the lockout, a second one from the same source was
\* refused, and one millisecond before 5000 have gone by since the first
\* reading a third one, called with the duration 0, has passed.
C33_Witness ==
    /\ Len(past) = 2
    /\ \A k \in 1..2 : past[k].kind = "sign"
    /\ "lockout" \in SeqToSet(past[1].stages)
    /\ past[2].error = "duplicate transfer" /\ past[2].source = past[1].source
    /\ inv[1].kind = "sign" /\ inv[1].pc = "simulate"
    /\ inv[1].transfer.source.pubkey = past[1].source
    /\ vin.sameSourceTimeout = [given |-> TRUE, ms |-> 0]
    /\ now = 1 + 5000 - 1
=============================================================================
